---- MODULE Spec2Model ----
(***************************************************************************)
(* Leveraged Position Engine: the flash-loan leverage / deleverage helpers *)
(* of the repository, modelled as one state machine.                       *)
(*                                                                         *)
(* Four deployments of the engine exist in the sources:                    *)
(*   "MorphoUni"  contracts/src/MorphoFlashLoan.sol (Self-Repay, Uniswap)  *)
(*   "MorphoLiFi" unnamed/part_017  (Self-Repay, LiFi / Aerodrome router)  *)
(*   "AaveCross"  unnamed/part_014  (Delegated-Debt, wstETH / WETH)        *)
(*   "AaveSingle" unnamed/part_015  (Delegated-Debt, one asset)            *)
(*                                                                         *)
(* A transaction is a sequence of steps (pc); a revert restores the world  *)
(* saved at the start of the transaction (EVM semantics).                  *)
(*                                                                         *)
(* Fixed-point constants are scaled down so that every product fits the    *)
(* model checker's integers: 1e18 is modelled by 100 and 1e36 by 10000.    *)
(***************************************************************************)
EXTENDS Integers, Sequences, FiniteSets, TLC

\* ------------------------------------------------------------ constants
PRECISION == 100
ORACLE_PRICE_SCALE == 10000
MIN_HEALTH_FACTOR == 100
MAX_LEVERAGE == 10000
BPS_BASE == 10000
MAX_UINT == 2000000000
LLTV == 81
LIQ_THRESHOLD_BPS == 8100
LTV_BPS == 7850

\* ------------------------------------------------------------ bounds
MaxOps == 2
MaxEnv == 1

Users == {"alice", "bob"}
Engine == "engine"
Lender == "lender"
Owner == "deployer"
Accounts == Users \cup {Engine, Lender, Owner}
Tokens == {"wsteth", "weth"}

Variants == {"MorphoUni", "MorphoLiFi", "AaveCross", "AaveSingle"}
MorphoVariants == {"MorphoUni", "MorphoLiFi"}
AaveVariants == {"AaveCross", "AaveSingle"}

PreviewLeverages == {100, 150, 450}
Leverages == PreviewLeverages \cup {10001}
Deposits == {0, 100}
OraclePrices == {11000, 12000}
PoolPrices == {11000, 12100}
InterestSteps == {1, 7}
PremiumRates == {0, 100}
SwapFees == {0, 2}
Delegations == {50}
InitialWallet == 100
InitialLiquidity == 1000

VARIABLES
    cfg,     \* immutable deployment parameters
    w,       \* the world: balances, positions, permissions, engine storage
    pre,     \* the world at the start of the transaction in flight
    pc,      \* position of the transaction in flight
    ctx,     \* CallbackContext and the locals of the operation in flight
    last,    \* outcome of the latest top-level call; none while one is in flight
    quote,   \* the latest usable preview, until the next call ends or the world moves
    nested,  \* outcome of the last nested call attempted during an operation
    opCount, \* number of top-level engine calls so far
    envCount \* number of environment moves so far

vars == <<cfg, w, pre, pc, ctx, last, quote, nested, opCount, envCount>>

\* ------------------------------------------------------------ arithmetic
Min(a, b) == IF a < b THEN a ELSE b

CeilDiv(a, b) == (a + b - 1) \div b

\* the asset the debt is denominated in
DebtToken == IF cfg.variant = "AaveSingle" THEN "wsteth" ELSE "weth"

Move(b, tok, from, to, amt) ==
    [b EXCEPT ![tok] = [@ EXCEPT ![from] = @ - amt, ![to] = @ + amt]]

\* ------------------------------------------------------------ price feeds
\* IOracle.price(): collateral price in debt units, 36 decimals
OraclePrice(wd) == wd.oraclePrice

\* IWstETH.stEthPerToken(): the same rate in 18 decimals
stEthPerToken(wd) == wd.oraclePrice \div (ORACLE_PRICE_SCALE \div PRECISION)

\* ------------------------------------------------------------ sizing
\* fault variant of flashWeth: the leverage factor is divided before it is
\* multiplied
flashWethDivideFirst(wd, targetLeverage, userDeposit) ==
    CASE cfg.variant \in MorphoVariants ->
           (userDeposit * OraclePrice(wd) * ((targetLeverage - PRECISION) \div PRECISION))
               \div ORACLE_PRICE_SCALE
      [] cfg.variant = "AaveCross" ->
           (userDeposit * stEthPerToken(wd) * ((targetLeverage - PRECISION) \div PRECISION))
               \div PRECISION
      [] cfg.variant = "AaveSingle" ->
           userDeposit * ((targetLeverage - PRECISION) \div PRECISION)

\* fault variant of flashWethAmount: the preview ignores the exchange rate
flashWethAmountAtPar(wd, targetLeverage, userDeposit) ==
    (userDeposit * (targetLeverage - PRECISION)) \div PRECISION

\* executeLeverage: the temporary loan requested for (userDeposit, targetLeverage)
flashWeth(wd, targetLeverage, userDeposit) ==
    CASE cfg.variant \in MorphoVariants ->
           (userDeposit * OraclePrice(wd) * (targetLeverage - PRECISION))
               \div (PRECISION * ORACLE_PRICE_SCALE)
      [] cfg.variant = "AaveCross" ->
           (userDeposit * stEthPerToken(wd) * (targetLeverage - PRECISION))
               \div (PRECISION * PRECISION)
      [] cfg.variant = "AaveSingle" ->
           (userDeposit * (targetLeverage - PRECISION)) \div PRECISION

\* executeLeverage (part_015): premium expected on the loan
expectedPremium(flashAmount) == (flashAmount * cfg.premiumBps) \div BPS_BASE

\* the debt the execution path expects the owner to end with
totalDebtExec(flashAmount) ==
    IF cfg.variant = "AaveSingle" THEN flashAmount + expectedPremium(flashAmount)
    ELSE flashAmount

\* simulateLeverage: flashWethAmount
flashWethAmount(wd, targetLeverage, userDeposit) ==
    CASE cfg.variant \in MorphoVariants ->
           (userDeposit * OraclePrice(wd) * (targetLeverage - PRECISION))
               \div (PRECISION * ORACLE_PRICE_SCALE)
      [] cfg.variant = "AaveCross" ->
           (userDeposit * stEthPerToken(wd) * (targetLeverage - PRECISION))
               \div (PRECISION * PRECISION)
      [] cfg.variant = "AaveSingle" ->
           (userDeposit * (targetLeverage - PRECISION)) \div PRECISION

\* ------------------------------------------------------------ swap venue
\* the venue's fee is a number of hundredths of the amount swapped
FEE_DENOM == PRECISION

\* exact-input swap: amount of tokenOut delivered for amountIn of tokenIn
SwapOutput(wd, tokenIn, amountIn) ==
    LET gross == IF tokenIn = "weth"
                 THEN (amountIn * ORACLE_PRICE_SCALE) \div wd.poolPrice
                 ELSE (amountIn * wd.poolPrice) \div ORACLE_PRICE_SCALE
    IN (gross * (FEE_DENOM - cfg.swapFee)) \div FEE_DENOM

\* exact-output swap wstETH -> WETH: amount of wstETH taken for amountOut
SwapInput(wd, amountOut) ==
    CeilDiv(amountOut * ORACLE_PRICE_SCALE * FEE_DENOM,
            wd.poolPrice * (FEE_DENOM - cfg.swapFee))

\* fault variant of _getPoolAmountOut: the estimate ignores the pool's rate
PoolAmountOutAtPar(wd, amountIn) == amountIn

\* _getPoolAmountOut(amountIn, true): the pool's spot estimate, no fee
_getPoolAmountOut(wd, amountIn) == (amountIn * ORACLE_PRICE_SCALE) \div wd.poolPrice

\* ------------------------------------------------------------ lending protocol
\* Morpho share conversions, rounded in the protocol's favour
toSharesUp(assets, totalAssets, totalShares) ==
    IF totalAssets = 0 \/ totalShares = 0 THEN assets * 10
    ELSE CeilDiv(assets * totalShares, totalAssets)

toSharesDown(assets, totalAssets, totalShares) ==
    IF totalAssets = 0 \/ totalShares = 0 THEN assets * 10
    ELSE (assets * totalShares) \div totalAssets

toAssetsUp(shares, totalAssets, totalShares) ==
    IF totalShares = 0 THEN 0
    ELSE CeilDiv(shares * totalAssets, totalShares)

\* Morpho _accrueInterest: interest pending since the last update joins the totals
accrueInterest(wd) ==
    [wd EXCEPT !.totalBorrowAssets =
                   IF wd.totalBorrowShares > 0 THEN @ + wd.pendingInterest ELSE @,
               !.pendingInterest = 0]

\* ------------------------------------------------------------ health
\* marks a computation that reverts (division by zero)
Panic == 0 - 1

\* _calculateHealthFactor (Morpho variants)
_calculateHealthFactor(wd, user) ==
    LET borrowShares == wd.debt[user]
        collateral == wd.collateral[user]
    IN IF borrowShares = 0 THEN MAX_UINT
       ELSE IF wd.totalBorrowShares > 0
       THEN LET debtAssets == (borrowShares * wd.totalBorrowAssets) \div wd.totalBorrowShares
                collateralValueEth == (collateral * OraclePrice(wd)) \div ORACLE_PRICE_SCALE
            IN IF debtAssets = 0 THEN Panic   \* division by zero reverts
               ELSE (collateralValueEth * cfg.lltv) \div debtAssets
       ELSE MAX_UINT

\* IAavePool.getUserAccountData(user)
getUserAccountData(wd, user) ==
    LET cb == (wd.collateral[user] * OraclePrice(wd)) \div ORACLE_PRICE_SCALE
        db == IF cfg.variant = "AaveSingle"
              THEN (wd.debt[user] * OraclePrice(wd)) \div ORACLE_PRICE_SCALE
              ELSE wd.debt[user]
    IN [totalCollateralBase |-> cb,
        totalDebtBase |-> db,
        healthFactor |-> IF db = 0 THEN MAX_UINT
                         ELSE (((cb * cfg.liqThresholdBps) \div BPS_BASE) * PRECISION) \div db]

\* the owner's debt as an amount of the debt asset (getUserPosition)
debtAssetsOf(wd, user) ==
    IF cfg.variant \in AaveVariants THEN wd.debt[user]
    ELSE IF wd.debt[user] > 0 /\ wd.totalBorrowShares > 0
         THEN (wd.debt[user] * wd.totalBorrowAssets) \div wd.totalBorrowShares
         ELSE 0

\* getHealthFactor(owner) of the engine's surface
healthFactorOf(wd, user) ==
    IF cfg.variant \in AaveVariants THEN getUserAccountData(wd, user).healthFactor
    ELSE _calculateHealthFactor(wd, user)

\* ------------------------------------------------------------ initial state
\* the operation kind of a parameter block that was not encoded yet
NoKind == 0 - 1

EmptyCtx ==
    [op |-> "none", user |-> "none", targetLeverage |-> 0, userDeposit |-> 0,
     flash |-> 0, premium |-> 0, expectedDebt |-> 0, swapData |-> FALSE,
     minOut |-> 0, collateralAmount |-> 0, borrowShares |-> 0, debtAmount |-> 0,
     fromSwap |-> 0, repaid |-> 0, repayAssets |-> 0, repayShares |-> 0,
     withdrawn |-> 0, returned |-> 0, returnedDebtToken |-> 0,
     collateralWithdrawnWsteth |-> 0,
     event |-> "none", hf |-> 0,
     totalCollateral |-> 0, totalDebt |-> 0, leverage |-> 0, trace |-> <<>>,
     precheck |-> "none", receipt |-> "none", opType |-> NoKind, handler |-> "none"]

NoResult == [op |-> "none", user |-> "none", status |-> "none", ctx |-> EmptyCtx]

NoQuote == [targetLeverage |-> 0, userDeposit |-> 0, flashWethAmount |-> 0, totalDebt |-> 0]

Configs ==
    {c \in [variant : Variants, aerodromeRouter : BOOLEAN,
            premiumBps : PremiumRates, swapFee : SwapFees,
            lltv : {LLTV}, ltvBps : {LTV_BPS}, liqThresholdBps : {LIQ_THRESHOLD_BPS}] :
        /\ (c.variant # "MorphoLiFi" => c.aerodromeRouter)
        /\ (c.variant \notin AaveVariants => c.premiumBps = 0)
        /\ (c.variant \in {"AaveSingle", "MorphoLiFi"} => c.swapFee = 0)}

InitWorld ==
    [bal |-> [t \in Tokens |->
                [a \in Accounts |->
                    IF a \in Users /\ t = "wsteth" THEN InitialWallet
                    ELSE IF a = Lender THEN InitialLiquidity
                    ELSE 0]],
     collateral |-> [a \in Accounts |-> 0],
     debt |-> [a \in Accounts |-> 0],
     totalBorrowAssets |-> IF cfg.variant \in MorphoVariants THEN 200 ELSE 0,
     totalBorrowShares |-> IF cfg.variant \in MorphoVariants THEN 2000 ELSE 0,
     pendingInterest |-> 0,
     authorized |-> [u \in Users |-> cfg.variant \in MorphoVariants],
     borrowAllowance |-> [u \in Users |-> IF cfg.variant \in AaveVariants THEN MAX_UINT ELSE 0],
     aTokenApproved |-> [u \in Users |-> cfg.variant \in AaveVariants],
     allowance |-> [u \in Users |-> MAX_UINT],
     paused |-> FALSE,
     authorizedCallers |-> IF cfg.variant \in AaveVariants THEN {Owner} ELSE {},
     entered |-> FALSE,
     oraclePrice |-> 11000,
     poolPrice |-> 11000]

Init ==
    /\ cfg \in Configs
    /\ w = InitWorld
    /\ pre = InitWorld
    /\ pc = 0
    /\ ctx = EmptyCtx
    /\ last = NoResult
    /\ quote = NoQuote
    /\ nested = "none"
    /\ opCount = 0
    /\ envCount = 0

\* ------------------------------------------------------------ transactions
\* the steps of an operation after its entry checks, in the order of the code
Program(op) ==
    CASE op = "leverage" /\ cfg.variant \in MorphoVariants ->
           <<"size", "grant", "swap", "supply", "settleDebt", "validate", "settleLoan">>
      [] op = "leverage" /\ cfg.variant = "AaveCross" ->
           <<"size", "grant", "swap", "supply", "settleDebt", "validate">>
      [] op = "leverage" /\ cfg.variant = "AaveSingle" ->
           <<"grant", "supply", "settleDebt", "validate">>
      [] op = "deleverage" /\ cfg.variant = "MorphoUni" ->
           <<"grant", "repay", "withdraw", "swapBack", "surplus", "payout", "settleLoan">>
      [] op = "deleverage" /\ cfg.variant = "MorphoLiFi" ->
           <<"grant", "repay", "withdraw", "swapBack", "payout", "settleLoan">>
      [] op = "deleverage" /\ cfg.variant = "AaveCross" ->
           <<"grant", "repay", "withdraw", "swapBack", "settleLoan", "payout">>
      [] op = "deleverage" /\ cfg.variant = "AaveSingle" ->
           <<"grant", "repay", "withdraw", "settleLoan", "payout">>
      [] OTHER -> <<>>

At(step) == pc > 0 /\ Program(ctx.op)[pc] = step

\* fault variant of nonReentrant: the guard never rejects
GuardDisabled(wd) == FALSE

\* ReentrancyGuard.nonReentrant: TRUE when the call must be rejected
nonReentrant(wd) == wd.entered

\* a call rejected by its entry checks: nothing was changed
Reject(op, user, err, args) ==
    /\ last' = [op |-> op, user |-> user, status |-> err, ctx |-> args]
    /\ quote' = NoQuote
    /\ nested' = "none"
    /\ UNCHANGED <<w, pre, pc, ctx>>

\* a call that passed its entry checks: the guard is taken
Begin(op, newW, newCtx) ==
    /\ pre' = w
    /\ w' = [newW EXCEPT !.entered = TRUE]
    /\ ctx' = [newCtx EXCEPT !.op = op]
    /\ pc' = 1
    /\ last' = NoResult
    /\ nested' = "none"
    /\ UNCHANGED quote

\* fault variant of Abort: the changes made before the failure stay
AbortKeepingChanges(err) ==
    /\ w' = [w EXCEPT !.entered = FALSE]
    /\ pre' = [w EXCEPT !.entered = FALSE]
    /\ pc' = 0
    /\ last' = [op |-> ctx.op, user |-> ctx.user, status |-> err, ctx |-> ctx]
    /\ ctx' = EmptyCtx
    /\ quote' = NoQuote
    /\ nested' = "none"

\* revert: every change made since the start of the transaction is undone
Abort(err) ==
    /\ w' = pre
    /\ pre' = pre
    /\ pc' = 0
    /\ last' = [op |-> ctx.op, user |-> ctx.user, status |-> err, ctx |-> ctx]
    /\ ctx' = EmptyCtx
    /\ quote' = NoQuote
    /\ nested' = "none"

\* fault variant of Advance: a step that succeeded is made again
AdvanceRepeating(step, newW, newCtx) ==
    /\ w' = newW
    /\ ctx' = [newCtx EXCEPT !.trace = Append(@, step)]
    /\ pc' = pc
    /\ nested' = "none"
    /\ UNCHANGED <<pre, last, quote>>

\* a step that succeeded: go to the next step, or return from the call
Advance(step, newW, newCtx) ==
    LET c == [newCtx EXCEPT !.trace = Append(@, step)]
    IN IF pc = Len(Program(ctx.op))
       THEN /\ w' = [newW EXCEPT !.entered = FALSE]
            /\ pre' = [newW EXCEPT !.entered = FALSE]
            /\ pc' = 0
            /\ last' = [op |-> ctx.op, user |-> ctx.user, status |-> "success", ctx |-> c]
            /\ ctx' = EmptyCtx
            /\ quote' = NoQuote
            /\ nested' = "none"
       ELSE /\ w' = newW
            /\ ctx' = c
            /\ pc' = pc + 1
            /\ nested' = "none"
            /\ UNCHANGED <<pre, last, quote>>

\* ------------------------------------------------------------ ERC20
\* SafeERC20.safeTransferFrom(user, engine, amount) can succeed
CanPull(wd, user, amount) ==
    wd.bal["wsteth"][user] >= amount /\ wd.allowance[user] >= amount

Pull(wd, user, amount) ==
    [wd EXCEPT !.bal = Move(@, "wsteth", user, Engine, amount),
               !.allowance[user] = IF @ = MAX_UINT THEN @ ELSE @ - amount]

\* ------------------------------------------------------------ openPosition
\* hasSufficientDelegation(user, amount)
hasSufficientDelegation(wd, user, amount) == wd.borrowAllowance[user] >= amount

\* executeLeverage: the checks made before the deposit is in custody, in the
\* order of the code; "ok" when the deposit is pulled
LeverageEntry(wd, user, targetLeverage, userDeposit) ==
    CASE cfg.variant \in MorphoVariants ->
           IF wd.paused THEN "ContractPaused"
           ELSE IF nonReentrant(wd) THEN "ReentrancyGuardReentrantCall"
           ELSE IF targetLeverage <= PRECISION \/ targetLeverage > MAX_LEVERAGE
                THEN "InvalidParameters"
           ELSE IF userDeposit = 0 THEN "InsufficientDeposit"
           ELSE IF ~wd.authorized[user] THEN "AuthorizationNotGranted"
           ELSE IF ~CanPull(wd, user, userDeposit) THEN "ERC20TransferError"
           ELSE "ok"
      [] cfg.variant = "AaveCross" ->
           IF wd.paused THEN "ContractPaused"
           ELSE IF nonReentrant(wd) THEN "ReentrancyGuardReentrantCall"
           ELSE IF targetLeverage <= PRECISION \/ targetLeverage > MAX_LEVERAGE
                THEN "InvalidParameters"
           ELSE IF userDeposit = 0 THEN "InvalidParameters"
           ELSE IF ~CanPull(wd, user, userDeposit) THEN "ERC20TransferError"
           ELSE "ok"
      [] cfg.variant = "AaveSingle" ->
           IF wd.paused THEN "ContractPaused"
           ELSE IF nonReentrant(wd) THEN "ReentrancyGuardReentrantCall"
           ELSE IF targetLeverage <= PRECISION \/ targetLeverage > MAX_LEVERAGE
                THEN "InvalidParameters"
           ELSE IF userDeposit = 0 THEN "InvalidParameters"
           ELSE IF flashWeth(wd, targetLeverage, userDeposit) = 0 THEN "InvalidParameters"
           ELSE IF ~hasSufficientDelegation(wd, user,
                        totalDebtExec(flashWeth(wd, targetLeverage, userDeposit)))
                THEN "InsufficientDelegation"
           ELSE IF wd.allowance[user] < userDeposit THEN "InvalidParameters"
           ELSE IF ~CanPull(wd, user, userDeposit) THEN "ERC20TransferError"
           ELSE "ok"

\* executeLeverage(targetLeverage, userDeposit) called by user
executeLeverage(user, targetLeverage, userDeposit, swapData, minOut) ==
    /\ pc = 0
    /\ opCount < MaxOps
    /\ opCount' = opCount + 1
    /\ UNCHANGED <<cfg, envCount>>
    /\ LET err == LeverageEntry(w, user, targetLeverage, userDeposit)
           sized == cfg.variant = "AaveSingle"
           fl == IF sized THEN flashWeth(w, targetLeverage, userDeposit) ELSE 0
           args == [EmptyCtx EXCEPT !.op = "leverage",
                                    !.opType = 0,
                                    !.user = user,
                                    !.targetLeverage = targetLeverage,
                                    !.userDeposit = userDeposit,
                                    !.swapData = swapData,
                                    !.minOut = minOut]
       IN IF err # "ok" THEN Reject("leverage", user, err, args)
          ELSE Begin("leverage", Pull(w, user, userDeposit),
                     [args EXCEPT !.flash = fl,
                                  !.expectedDebt = IF sized THEN totalDebtExec(fl) ELSE 0])

\* executeLeverage: sizing of the loan, after the deposit was pulled
SizeLoan ==
    /\ At("size")
    /\ UNCHANGED <<cfg, opCount, envCount>>
    /\ LET fl == flashWeth(w, ctx.targetLeverage, ctx.userDeposit)
       IN IF fl = 0 THEN Abort("InvalidParameters")
          ELSE IF cfg.variant = "AaveCross" /\ ~hasSufficientDelegation(w, ctx.user, fl)
          THEN Abort("InsufficientDelegation")
          ELSE Advance("size", w, [ctx EXCEPT !.flash = fl, !.expectedDebt = totalDebtExec(fl)])

\* fault variant of CallbackEntry: the callback accepts every caller
CallbackEntryUnchecked(caller, initiator) == "ok"

\* onMorphoFlashLoan / executeOperation: the checks on the caller of the callback
\* (and, for executeOperation, on the initiator of the loan)
CallbackEntry(caller, initiator) ==
    IF caller # Lender THEN "InvalidCaller"
    ELSE IF cfg.variant \in AaveVariants /\ initiator # Engine THEN "InvalidCaller"
    ELSE "ok"

\* fault variant of Dispatch: every kind but 1 runs the open handler
DispatchOpenByDefault(opType) == IF opType = 1 THEN "deleverage" ELSE "leverage"

\* onMorphoFlashLoan / executeOperation: the handler chosen for the operation
\* kind decoded from the parameters, or the error
Dispatch(opType) ==
    IF opType = 0 THEN "leverage"
    ELSE IF opType = 1 THEN "deleverage"
    ELSE "InvalidParameters"

\* IMorpho.flashLoan / IAavePool.flashLoan: the funds are sent, the callback
\* checks its caller and dispatches on the operation kind
GrantLoan ==
    /\ At("grant")
    /\ UNCHANGED <<cfg, opCount, envCount>>
    /\ IF w.bal[DebtToken][Lender] < ctx.flash THEN Abort("LendingError")
       ELSE IF CallbackEntry(Lender, Engine) # "ok"
       THEN Abort(CallbackEntry(Lender, Engine))
       ELSE IF Dispatch(ctx.opType) = "InvalidParameters"
       THEN Abort("InvalidParameters")
       ELSE Advance("grant",
                    [w EXCEPT !.bal = Move(@, DebtToken, Lender, Engine, ctx.flash)],
                    [ctx EXCEPT !.handler = Dispatch(ctx.opType),
                                !.premium =
                         IF cfg.variant \in AaveVariants /\ ctx.op = "deleverage"
                         THEN (ctx.flash * cfg.premiumBps) \div BPS_BASE ELSE 0])

\* _handleLeverage: whether the WETH -> wstETH swap is made at all
LeverageSwaps == cfg.variant # "MorphoLiFi" \/ ctx.swapData \/ cfg.aerodromeRouter

\* _handleLeverage: swap the loan into collateral
SwapLoan ==
    /\ At("swap")
    /\ UNCHANGED <<cfg, opCount, envCount>>
    /\ LET out == IF LeverageSwaps THEN SwapOutput(w, "weth", ctx.flash) ELSE 0
           spent == IF LeverageSwaps THEN ctx.flash ELSE 0
       IN IF cfg.variant = "AaveCross" /\ out < ctx.minOut THEN Abort("SwapError")
          ELSE Advance("swap",
                       [w EXCEPT !.bal["weth"][Engine] = @ - spent,
                                 !.bal["wsteth"][Engine] = @ + out],
                       [ctx EXCEPT !.fromSwap = out])

\* fault variant of totalWsteth: the deposit alone is supplied
totalWstethDepositOnly == ctx.userDeposit

\* _handleLeverage: the amount supplied as collateral on the owner's behalf
totalWsteth ==
    IF cfg.variant = "AaveSingle" THEN ctx.flash + ctx.userDeposit
    ELSE ctx.userDeposit + ctx.fromSwap

\* IMorpho.supplyCollateral / IAavePool.supply on behalf of the owner
SupplyCollateral ==
    /\ At("supply")
    /\ UNCHANGED <<cfg, opCount, envCount>>
    /\ IF w.bal["wsteth"][Engine] < totalWsteth THEN Abort("ERC20TransferError")
       ELSE Advance("supply",
                    [w EXCEPT !.bal = Move(@, "wsteth", Engine, Lender, totalWsteth),
                              !.collateral[ctx.user] = @ + totalWsteth],
                    ctx)

\* fault variant of MorphoBorrow: the debt is booked on the owner the engine
\* names and on the other owner as well
MorphoBorrowOnBothOwners(wd, user, assets) ==
    LET a == accrueInterest(wd)
        shares == toSharesUp(assets, a.totalBorrowAssets, a.totalBorrowShares)
        other == CHOOSE v \in Users : v # user
    IN [a EXCEPT !.debt[other] = @ + shares,
                 !.debt[user] = @ + shares,
                 !.totalBorrowShares = @ + shares,
                 !.totalBorrowAssets = @ + assets,
                 !.bal = Move(@, "weth", Lender, Engine, assets)]

\* IMorpho.borrow(assets, 0, onBehalf, receiver) by the engine
MorphoBorrow(wd, user, assets) ==
    LET a == accrueInterest(wd)
        shares == toSharesUp(assets, a.totalBorrowAssets, a.totalBorrowShares)
    IN [a EXCEPT !.debt[user] = @ + shares,
                 !.totalBorrowShares = @ + shares,
                 !.totalBorrowAssets = @ + assets,
                 !.bal = Move(@, "weth", Lender, Engine, assets)]

\* the loan becomes the owner's debt: borrow on behalf (Self-Repay), or the
\* lending pool opens the debt when the callback returns (Delegated-Debt, mode 2)
SettleDebt ==
    /\ At("settleDebt")
    /\ UNCHANGED <<cfg, opCount, envCount>>
    /\ IF cfg.variant \in MorphoVariants
       THEN IF ~w.authorized[ctx.user] \/ w.bal["weth"][Lender] < ctx.flash
            THEN Abort("LendingError")
            ELSE Advance("settleDebt", MorphoBorrow(w, ctx.user, ctx.flash), ctx)
       ELSE IF w.borrowAllowance[ctx.user] < ctx.flash
            THEN Abort("LendingError")
            ELSE Advance("settleDebt",
                         [w EXCEPT !.debt[ctx.user] = @ + ctx.flash,
                                   !.borrowAllowance[ctx.user] = @ - ctx.flash],
                         ctx)

\* fault variant of _validatePosition: the health factor is not compared
ValidatePositionWithoutHealthCheck(wd, user) ==
    IF wd.collateral[user] = 0 \/ wd.debt[user] = 0 THEN "UnsafeLeverage"
    ELSE "ok"

\* _validatePosition(user) (Morpho variants): "ok" or the error it reverts with
_validatePosition(wd, user) ==
    IF wd.collateral[user] = 0 \/ wd.debt[user] = 0 THEN "UnsafeLeverage"
    ELSE IF _calculateHealthFactor(wd, user) = Panic THEN "Panic"
    ELSE IF _calculateHealthFactor(wd, user) < MIN_HEALTH_FACTOR THEN "UnsafeLeverage"
    ELSE "ok"

\* fault variant of _validateFinalPosition: only the zero checks are made
ValidateFinalPositionZeroOnly(wd, user) ==
    LET d == getUserAccountData(wd, user)
    IN IF d.totalCollateralBase = 0 \/ d.totalDebtBase = 0 THEN "UnsafeLeverage"
       ELSE "ok"

\* _validateFinalPosition(user) (Aave variants): "ok" or the error it reverts with
_validateFinalPosition(wd, user) ==
    LET d == getUserAccountData(wd, user)
    IN IF d.healthFactor < MIN_HEALTH_FACTOR THEN "UnsafeLeverage"
       ELSE IF d.totalCollateralBase = 0 \/ d.totalDebtBase = 0 THEN "UnsafeLeverage"
       ELSE IF d.totalCollateralBase <= d.totalDebtBase THEN "UnsafeLeverage"
       ELSE "ok"

\* _validatePosition / _validateFinalPosition: the fields of LeverageExecuted
\* after the owner (collateral, debt, leverage, healthFactor)
LeverageExecuted(wd, user) ==
    IF cfg.variant \in MorphoVariants
    THEN [totalCollateral |-> wd.collateral[user],
          totalDebt |-> wd.debt[user],
          leverage |-> 0,
          healthFactor |-> _calculateHealthFactor(wd, user)]
    ELSE LET d == getUserAccountData(wd, user)
         IN [totalCollateral |-> d.totalCollateralBase,
             totalDebt |-> d.totalDebtBase,
             leverage |-> (d.totalCollateralBase * PRECISION)
                              \div (d.totalCollateralBase - d.totalDebtBase),
             healthFactor |-> d.healthFactor]

\* the Health Validator, run on the owner's position
Validate ==
    /\ At("validate")
    /\ UNCHANGED <<cfg, opCount, envCount>>
    /\ LET err == IF cfg.variant \in MorphoVariants
                  THEN _validatePosition(w, ctx.user)
                  ELSE _validateFinalPosition(w, ctx.user)
       IN IF err # "ok" THEN Abort(err)
          ELSE Advance("validate", w,
                       [ctx EXCEPT !.event = "LeverageExecuted",
                                   !.hf = LeverageExecuted(w, ctx.user).healthFactor,
                                   !.totalCollateral =
                                       LeverageExecuted(w, ctx.user).totalCollateral,
                                   !.totalDebt = LeverageExecuted(w, ctx.user).totalDebt,
                                   !.leverage = LeverageExecuted(w, ctx.user).leverage])

\* the lending protocol pulls the temporary loan (and its premium) back
SettleLoan ==
    /\ At("settleLoan")
    /\ UNCHANGED <<cfg, opCount, envCount>>
    /\ LET owed == ctx.flash + ctx.premium
       IN IF w.bal[DebtToken][Engine] < owed THEN Abort("LendingError")
          ELSE Advance("settleLoan",
                       [w EXCEPT !.bal = Move(@, DebtToken, Engine, Lender, owed)],
                       ctx)

\* ------------------------------------------------------------ closePosition
\* executeDeleverage: the owner's debt as an amount, from the shares and the
\* market totals as stored (interest pending since the last update not included)
debtAmountRead(wd, user) ==
    CASE cfg.variant = "MorphoUni" ->
           IF wd.totalBorrowShares > 0
           THEN (wd.debt[user] * wd.totalBorrowAssets + wd.totalBorrowShares - 1)
                    \div wd.totalBorrowShares
           ELSE 0
      [] cfg.variant = "MorphoLiFi" ->
           IF wd.totalBorrowShares > 0
           THEN (wd.debt[user] * wd.totalBorrowAssets) \div wd.totalBorrowShares
           ELSE 0
      [] OTHER -> wd.debt[user]

\* executeDeleverage: the temporary loan requested for a debt amount
flashAmount(debtAmount) ==
    IF cfg.variant = "MorphoUni" THEN debtAmount + debtAmount \div 1000 + 1
    ELSE debtAmount

\* fault variant of DeleverageEntry: callers outside authorizedCallers are
\* turned away
DeleverageEntryGated(wd, user) ==
    IF wd.paused THEN "ContractPaused"
    ELSE IF nonReentrant(wd) THEN "ReentrancyGuardReentrantCall"
    ELSE IF user \notin wd.authorizedCallers THEN "Unauthorized"
    ELSE IF cfg.variant \in MorphoVariants /\ ~wd.authorized[user]
    THEN "AuthorizationNotGranted"
    ELSE IF wd.debt[user] = 0 THEN "NoDebtPosition"
    ELSE "ok"

\* executeDeleverage: the checks made before the loan is requested
DeleverageEntry(wd, user) ==
    IF wd.paused THEN "ContractPaused"
    ELSE IF nonReentrant(wd) THEN "ReentrancyGuardReentrantCall"
    ELSE IF cfg.variant \in MorphoVariants
    THEN IF ~wd.authorized[user] THEN "AuthorizationNotGranted"
         ELSE IF wd.debt[user] = 0 /\ wd.collateral[user] = 0 THEN "NoDebtPosition"
         ELSE IF debtAmountRead(wd, user) = 0 THEN "NoDebtPosition"
         ELSE "ok"
    ELSE IF debtAmountRead(wd, user) = 0 THEN "InvalidParameters"
         ELSE "ok"

\* executeDeleverage() called by user
executeDeleverage(user, swapData) ==
    /\ pc = 0
    /\ opCount < MaxOps
    /\ opCount' = opCount + 1
    /\ UNCHANGED <<cfg, envCount>>
    /\ LET err == DeleverageEntry(w, user)
           args == [EmptyCtx EXCEPT !.op = "deleverage",
                                    !.opType = 1,
                                    !.user = user,
                                    !.swapData = swapData]
       IN IF err # "ok" THEN Reject("deleverage", user, err, args)
          ELSE Begin("deleverage", w,
                     [args EXCEPT !.collateralAmount = w.collateral[user],
                                  !.borrowShares = w.debt[user],
                                  !.debtAmount = debtAmountRead(w, user),
                                  !.flash = flashAmount(debtAmountRead(w, user))])

\* IMorpho.repay(assets, shares, onBehalf): exactly one of assets, shares is zero
MorphoRepay(wd, user, assets, shares) ==
    LET a == accrueInterest(wd)
        sh == IF assets > 0
              THEN toSharesDown(assets, a.totalBorrowAssets, a.totalBorrowShares)
              ELSE shares
        as == IF assets > 0 THEN assets
              ELSE toAssetsUp(shares, a.totalBorrowAssets, a.totalBorrowShares)
    IN [world |-> [a EXCEPT !.debt[user] = @ - sh,
                            !.totalBorrowShares = @ - sh,
                            !.totalBorrowAssets = IF @ > as THEN @ - as ELSE 0,
                            !.bal = Move(@, "weth", Engine, Lender, as)],
        assetsRepaid |-> as,
        sharesRepaid |-> sh,
        ok |-> sh <= a.debt[user] /\ as <= a.bal["weth"][Engine]]

\* fault variant of RepayArgs: one unit less than the debt is repaid
RepayArgsShort ==
    IF cfg.variant = "MorphoUni" THEN <<0, ctx.borrowShares - 1>>
    ELSE <<ctx.flash - 1, 0>>

\* _handleDeleverage: the arguments of the repay call, <<assets, shares>>
RepayArgs ==
    IF cfg.variant = "MorphoUni" THEN <<0, ctx.borrowShares>>
    ELSE <<ctx.flash, 0>>

\* _handleDeleverage step 1: repay the owner's debt
RepayDebt ==
    /\ At("repay")
    /\ UNCHANGED <<cfg, opCount, envCount>>
    /\ IF cfg.variant \in MorphoVariants
       THEN LET r == MorphoRepay(w, ctx.user, RepayArgs[1], RepayArgs[2])
            IN IF ~r.ok THEN Abort("LendingError")
               ELSE Advance("repay", r.world,
                            [ctx EXCEPT !.repaid = r.assetsRepaid,
                                        !.repayAssets = RepayArgs[1],
                                        !.repayShares = RepayArgs[2]])
       ELSE LET payback == Min(RepayArgs[1], w.debt[ctx.user])
            IN IF w.debt[ctx.user] = 0 \/ w.bal[DebtToken][Engine] < payback
               THEN Abort("LendingError")
               ELSE Advance("repay",
                            [w EXCEPT !.debt[ctx.user] = @ - payback,
                                      !.bal = Move(@, DebtToken, Engine, Lender, payback)],
                            [ctx EXCEPT !.repaid = payback,
                                        !.repayAssets = RepayArgs[1],
                                        !.repayShares = RepayArgs[2]])

\* _handleDeleverage: the collateral amount asked from the lending protocol
\* (part_017 passes type(uint256).max, "withdraw all")
WithdrawAmount ==
    IF cfg.variant = "MorphoUni" THEN ctx.collateralAmount
    ELSE w.collateral[ctx.user]

\* _handleDeleverage step 2: the owner's collateral comes into engine custody
WithdrawCollateral ==
    /\ At("withdraw")
    /\ UNCHANGED <<cfg, opCount, envCount>>
    /\ LET amt == WithdrawAmount
           allowed == IF cfg.variant \in MorphoVariants THEN w.authorized[ctx.user]
                      ELSE amt = 0 \/ w.aTokenApproved[ctx.user]
           a == IF cfg.variant \in MorphoVariants THEN accrueInterest(w) ELSE w
           \* Aave: the engine withdraws its whole aToken balance
           out == IF cfg.variant \in AaveVariants THEN amt + w.collateral[Engine] ELSE amt
       IN IF ~allowed \/ out = 0 \/ amt > w.collateral[ctx.user]
             \/ w.bal["wsteth"][Lender] < out
          THEN Abort("LendingError")
          ELSE Advance("withdraw",
                       [a EXCEPT !.collateral[ctx.user] = @ - amt,
                                 !.collateral[Engine] = 0,
                                 !.bal = Move(@, "wsteth", Lender, Engine, out)],
                       [ctx EXCEPT !.withdrawn = out])

\* _handleDeleverage (MorphoFlashLoan.sol): wstETH sold first, with the 2% buffer
wstethToSwap(wd, wethDeficit) ==
    Min((wethDeficit * ORACLE_PRICE_SCALE * 102 + OraclePrice(wd) * 100 - 1)
            \div (OraclePrice(wd) * 100),
        wd.bal["wsteth"][Engine])

\* the engine sells amountIn of tokenIn at the venue
EngineSwap(wd, tokenIn, amountIn) ==
    LET tokenOut == IF tokenIn = "weth" THEN "wsteth" ELSE "weth"
    IN [wd EXCEPT !.bal[tokenIn][Engine] = @ - amountIn,
                  !.bal[tokenOut][Engine] = @ + SwapOutput(wd, tokenIn, amountIn)]

\* _handleDeleverage step 3 (MorphoFlashLoan.sol): the world after the swaps
SwapBackUni(wd, flashW) ==
    LET wethBalance == wd.bal["weth"][Engine]
        wethDeficit == IF flashW > wethBalance THEN flashW - wethBalance ELSE 0
        w1 == IF wethDeficit > 0
              THEN EngineSwap(wd, "wsteth", wstethToSwap(wd, wethDeficit))
              ELSE wd
        remaining == w1.bal["wsteth"][Engine]
    IN IF wethDeficit > 0 /\ w1.bal["weth"][Engine] < flashW /\ remaining > 0
       THEN EngineSwap(w1, "wsteth", remaining)
       ELSE w1

\* _handleDeleverage step 3 (part_017): the world after the swap
SwapBackLiFi(wd, withdrawnWsteth, swapData) ==
    IF swapData \/ cfg.aerodromeRouter
    THEN EngineSwap(wd, "wsteth", withdrawnWsteth)
    ELSE wd

\* _handleDeleverage step 3: obtain the debt asset that repays the loan
SwapBack ==
    /\ At("swapBack")
    /\ UNCHANGED <<cfg, opCount, envCount>>
    /\ CASE cfg.variant = "MorphoUni" ->
              LET n == SwapBackUni(w, ctx.flash)
              IN IF n.bal["weth"][Engine] < ctx.flash THEN Abort("InsufficientSwapOutput")
                 ELSE Advance("swapBack", n, ctx)
         [] cfg.variant = "MorphoLiFi" ->
              LET n == SwapBackLiFi(w, ctx.withdrawn, ctx.swapData)
                  wethReceived == n.bal["weth"][Engine] - w.bal["weth"][Engine]
              IN IF wethReceived < ctx.flash THEN Abort("InsufficientSwapOutput")
                 ELSE Advance("swapBack", n, ctx)
         [] OTHER ->
              LET owed == ctx.flash + ctx.premium
                  in == SwapInput(w, owed)
              IN IF in > w.bal["wsteth"][Engine] THEN Abort("SwapError")
                 ELSE Advance("swapBack",
                              [w EXCEPT !.bal["wsteth"][Engine] = @ - in,
                                        !.bal["weth"][Engine] = @ + owed],
                              ctx)

\* _handleDeleverage step 4 (MorphoFlashLoan.sol): surplus WETH back to wstETH
SwapSurplus ==
    /\ At("surplus")
    /\ UNCHANGED <<cfg, opCount, envCount>>
    /\ LET wethFinal == w.bal["weth"][Engine]
           surplusWeth == IF wethFinal > ctx.flash THEN wethFinal - ctx.flash ELSE 0
       IN Advance("surplus",
                  IF surplusWeth > 0 THEN EngineSwap(w, "weth", surplusWeth) ELSE w,
                  ctx)

\* the debt asset handed to the owner at payout
\* (part_017: the surplus over the loan; part_014: the leftover dust)
PayoutDebtToken(wd) ==
    CASE cfg.variant = "MorphoLiFi" -> wd.bal["weth"][Engine] - ctx.flash
      [] cfg.variant = "AaveCross" -> wd.bal["weth"][Engine]
      [] OTHER -> 0

\* PositionUnwound: the collateralWithdrawnWsteth field of the event
collateralWithdrawnWsteth(remaining) ==
    CASE cfg.variant = "MorphoUni" -> ctx.collateralAmount
      [] cfg.variant = "MorphoLiFi" -> ctx.withdrawn
      [] OTHER -> remaining + ctx.debtAmount

\* everything left in custody goes to the owner; PositionUnwound is emitted
Payout ==
    /\ At("payout")
    /\ UNCHANGED <<cfg, opCount, envCount>>
    /\ LET remaining == w.bal["wsteth"][Engine]
           dust == PayoutDebtToken(w)
           w1 == [w EXCEPT !.bal = Move(@, "wsteth", Engine, ctx.user, remaining)]
           w2 == [w1 EXCEPT !.bal = Move(@, "weth", Engine, ctx.user, dust)]
       IN Advance("payout", w2,
                  [ctx EXCEPT !.returned = remaining,
                              !.returnedDebtToken = dust,
                              !.collateralWithdrawnWsteth =
                                  collateralWithdrawnWsteth(remaining),
                              !.event = "PositionUnwound"])

\* ------------------------------------------------------------ nested calls
\* a party called by the operation in flight (the swap venue; the lending
\* protocol granting the loan where the deployment has no swap) calls
\* executeLeverage / executeDeleverage on the engine
NestedCall(op, user, targetLeverage, userDeposit) ==
    /\ At("swap") \/ At("swapBack") \/ (cfg.variant = "AaveSingle" /\ At("grant"))
    /\ nested = "none"
    /\ LET err == IF op = "leverage"
                  THEN LeverageEntry(w, user, targetLeverage, userDeposit)
                  ELSE DeleverageEntry(w, user)
       IN nested' = IF err = "ok" THEN "started" ELSE err
    /\ UNCHANGED <<cfg, w, pre, pc, ctx, last, quote, opCount, envCount>>

\* ------------------------------------------------------------ loan callback
\* onMorphoFlashLoan / executeOperation invoked outside a loan of the engine:
\* by a party that is not the lending protocol, or (Delegated-Debt) by the
\* lending pool for a loan that another party initiated with the engine as
\* receiver. With the entry checks passed the handler would run on the
\* caller's parameters ("handled").
LoanCallback(caller, initiator) ==
    /\ pc = 0
    /\ opCount < MaxOps
    /\ opCount' = opCount + 1
    /\ caller # Lender \/ (cfg.variant \in AaveVariants /\ initiator # Engine)
    /\ LET err == CallbackEntry(caller, initiator)
       IN last' = [op |-> "callback", user |-> caller,
                   status |-> IF err = "ok" THEN "handled" ELSE err,
                   ctx |-> [EmptyCtx EXCEPT !.op = "callback", !.user = initiator]]
    /\ quote' = NoQuote
    /\ nested' = "none"
    /\ UNCHANGED <<cfg, w, pre, pc, ctx, envCount>>

\* the operation kinds a parameter block can carry besides the two the engine
\* encodes (a uint8)
ForeignKinds == {2, 255}

\* onMorphoFlashLoan / executeOperation reached, its caller checks passed, with
\* a parameter block of a kind the engine does not encode: the dispatch fails
\* and the transaction is reverted
CallbackOfKind(opType) ==
    /\ pc = 0
    /\ opCount < MaxOps
    /\ opCount' = opCount + 1
    /\ opType \in ForeignKinds
    /\ LET err == CallbackEntry(Lender, Engine)
           h == Dispatch(opType)
       IN last' = [op |-> "callback", user |-> Lender,
                   status |-> IF err # "ok" THEN err
                              ELSE IF h = "InvalidParameters" THEN h
                              ELSE "handled",
                   ctx |-> [EmptyCtx EXCEPT !.op = "callback",
                                            !.user = Engine,
                                            !.opType = opType,
                                            !.handler = IF err = "ok" THEN h ELSE "none"]]
    /\ quote' = NoQuote
    /\ nested' = "none"
    /\ UNCHANGED <<cfg, w, pre, pc, ctx, envCount>>

\* ------------------------------------------------------------ previewOpen
\* simulateLeverage(targetLeverage, userDeposit): the values it returns
simulateLeverage(wd, targetLeverage, userDeposit) ==
    LET zero == [status |-> "success", flashWethAmount |-> 0, totalCollateral |-> 0,
                 totalDebt |-> 0, estimatedHealthFactor |-> 0]
        fl == flashWethAmount(wd, targetLeverage, userDeposit)
    IN IF targetLeverage <= PRECISION \/ userDeposit = 0
       THEN IF cfg.variant \in MorphoVariants THEN zero
            ELSE [zero EXCEPT !.status = "InvalidParameters"]
       ELSE CASE cfg.variant = "MorphoUni" ->
                   LET tc == userDeposit
                               + (IF fl > 0 THEN _getPoolAmountOut(wd, fl)
                                  ELSE (fl * ORACLE_PRICE_SCALE) \div OraclePrice(wd))
                       cv == (tc * OraclePrice(wd)) \div ORACLE_PRICE_SCALE
                   IN [status |-> "success", flashWethAmount |-> fl,
                       totalCollateral |-> tc, totalDebt |-> fl,
                       estimatedHealthFactor |->
                           IF fl = 0 THEN MAX_UINT ELSE (cv * cfg.lltv) \div fl]
              [] cfg.variant = "MorphoLiFi" ->
                   LET tc == userDeposit + (fl * ORACLE_PRICE_SCALE) \div OraclePrice(wd)
                       cv == (tc * OraclePrice(wd)) \div ORACLE_PRICE_SCALE
                   IN IF fl = 0
                      THEN [zero EXCEPT !.status = "Panic"]   \* division by zero
                      ELSE [status |-> "success", flashWethAmount |-> fl,
                            totalCollateral |-> tc, totalDebt |-> fl,
                            estimatedHealthFactor |-> (cv * cfg.lltv) \div fl]
              [] cfg.variant = "AaveCross" ->
                   LET tc == userDeposit + (fl * PRECISION) \div stEthPerToken(wd)
                   IN [status |-> "success", flashWethAmount |-> fl,
                       totalCollateral |-> tc, totalDebt |-> fl,
                       estimatedHealthFactor |->
                           IF fl = 0 THEN MAX_UINT
                           ELSE (tc * stEthPerToken(wd) * cfg.liqThresholdBps)
                                    \div (fl * BPS_BASE)]
              [] cfg.variant = "AaveSingle" ->
                   LET premium == (fl * cfg.premiumBps) \div BPS_BASE
                       tc == fl + userDeposit
                       td == fl + premium
                   IN [status |-> "success", flashWethAmount |-> fl,
                       totalCollateral |-> tc, totalDebt |-> td,
                       estimatedHealthFactor |->
                           IF td = 0 THEN MAX_UINT
                           ELSE (tc * cfg.liqThresholdBps * PRECISION) \div (td * BPS_BASE)]

\* simulateLeverage() called by anyone: a view call, its result is recorded
Preview(targetLeverage, userDeposit) ==
    /\ pc = 0
    /\ opCount < MaxOps
    /\ opCount' = opCount + 1
    /\ LET r == simulateLeverage(w, targetLeverage, userDeposit)
       IN /\ last' = [op |-> "preview", user |-> "none", status |-> r.status,
                   ctx |-> [EmptyCtx EXCEPT !.op = "preview",
                                            !.targetLeverage = targetLeverage,
                                            !.userDeposit = userDeposit,
                                            !.flash = r.flashWethAmount,
                                            !.expectedDebt = r.totalDebt,
                                            !.collateralAmount = r.totalCollateral,
                                            !.hf = r.estimatedHealthFactor]]
          /\ quote' = IF r.status = "success" /\ r.flashWethAmount > 0
                      THEN [targetLeverage |-> targetLeverage,
                            userDeposit |-> userDeposit,
                            flashWethAmount |-> r.flashWethAmount,
                            totalDebt |-> r.totalDebt]
                      ELSE NoQuote
    /\ nested' = "none"
    /\ UNCHANGED <<cfg, w, pre, pc, ctx, envCount>>

\* ------------------------------------------------------------ environment
\* a move of the environment between two engine calls
EnvMove(newW) ==
    /\ pc = 0
    /\ envCount < MaxEnv
    /\ envCount' = envCount + 1
    /\ newW # w
    /\ w' = newW
    /\ pre' = newW
    /\ last' = NoResult
    /\ quote' = NoQuote
    /\ nested' = "none"
    /\ UNCHANGED <<cfg, pc, ctx, opCount>>

\* IMorpho.setAuthorization(engine, isAuthorized) by the owner of a position
SetAuthorization(user, isAuthorized) ==
    /\ cfg.variant \in MorphoVariants
    /\ EnvMove([w EXCEPT !.authorized[user] = isAuthorized])

\* IVariableDebtToken.approveDelegation(engine, amount) by the owner of a position
ApproveDelegation(user, amount) ==
    /\ cfg.variant \in AaveVariants
    /\ EnvMove([w EXCEPT !.borrowAllowance[user] = amount])

\* IERC20.approve(engine, amount) on the collateral asset
Approve(user, amount) ==
    EnvMove([w EXCEPT !.allowance[user] = amount])

\* IERC20.approve(engine, ...) on the aToken
ApproveAToken(user, approved) ==
    /\ cfg.variant \in AaveVariants
    /\ EnvMove([w EXCEPT !.aTokenApproved[user] = approved])

\* the oracle reports a new rate
OracleMoves(price) == EnvMove([w EXCEPT !.oraclePrice = price])

\* the swap venue trades at a new rate
PoolMoves(price) ==
    /\ cfg.variant # "AaveSingle"
    /\ EnvMove([w EXCEPT !.poolPrice = price])

\* time passes: interest accrues on the debt of the market
TimePasses(interest) ==
    IF cfg.variant \in MorphoVariants
    THEN /\ w.totalBorrowShares > 0
         /\ EnvMove([w EXCEPT !.pendingInterest = @ + interest])
    ELSE EnvMove([w EXCEPT !.debt = [a \in Accounts |->
                                        IF w.debt[a] > 0 THEN w.debt[a] + interest
                                        ELSE 0]])

\* ------------------------------------------------------------ getMaxSafeLeverage
\* fault variant of getMaxSafeLeverage: the theoretical maximum, no margin kept
MaxLeverageWithoutMargin ==
    IF cfg.variant \in MorphoVariants
    THEN (PRECISION * PRECISION) \div (PRECISION - cfg.lltv)
    ELSE IF cfg.ltvBps = 0 THEN PRECISION
    ELSE Min((BPS_BASE * PRECISION) \div (BPS_BASE - cfg.liqThresholdBps), MAX_LEVERAGE)

\* fault variant of getMaxSafeLeverage: the engine's cap alone
MaxLeverageCapOnly == MAX_LEVERAGE

\* getMaxSafeLeverage(): the value it returns
getMaxSafeLeverage ==
    IF cfg.variant \in MorphoVariants
    THEN LET maxTheoretical == (PRECISION * PRECISION) \div (PRECISION - cfg.lltv)
         IN (maxTheoretical * 95) \div 100
    ELSE LET ltv == cfg.ltvBps
             safeLtv == (ltv * 90) \div 100
             maxLev == (BPS_BASE * PRECISION) \div (BPS_BASE - safeLtv)
         IN IF ltv = 0 THEN PRECISION
            ELSE IF safeLtv >= BPS_BASE THEN MAX_LEVERAGE
            ELSE IF maxLev > MAX_LEVERAGE THEN MAX_LEVERAGE ELSE maxLev

\* getMaxSafeLeverage() called by anyone: a view call, its result is recorded
MaxSafeLeverageView ==
    /\ pc = 0
    /\ opCount < MaxOps
    /\ opCount' = opCount + 1
    /\ last' = [op |-> "getMaxSafeLeverage", user |-> "none", status |-> "success",
                ctx |-> [EmptyCtx EXCEPT !.op = "getMaxSafeLeverage",
                                         !.targetLeverage = getMaxSafeLeverage]]
    /\ quote' = NoQuote
    /\ nested' = "none"
    /\ UNCHANGED <<cfg, w, pre, pc, ctx, envCount>>

\* ------------------------------------------------------------ administration
AdminFunctions == {"setPaused", "setAuthorizedCaller", "emergencyWithdraw"}

\* fault variant of onlyOwner: every caller passes
OnlyOwnerDisabled(caller) == "ok"

\* modifier onlyOwner: "ok" or the error it reverts with
onlyOwner(caller) == IF caller # Owner THEN "Unauthorized" ELSE "ok"

\* an administrative call between two operations: rejected by onlyOwner, or
\* carried out
AdminCall(fn, caller, newW) ==
    /\ pc = 0
    /\ envCount < MaxEnv
    /\ envCount' = envCount + 1
    /\ LET err == onlyOwner(caller)
       IN /\ w' = IF err = "ok" THEN newW ELSE w
          /\ pre' = w'
          /\ last' = [op |-> fn, user |-> caller,
                      status |-> IF err = "ok" THEN "success" ELSE err,
                      ctx |-> EmptyCtx]
    /\ quote' = NoQuote
    /\ nested' = "none"
    /\ UNCHANGED <<cfg, pc, ctx, opCount>>

\* setPaused(_paused)
setPaused(caller, _paused) ==
    AdminCall("setPaused", caller, [w EXCEPT !.paused = _paused])

\* setAuthorizedCaller(caller, authorized)
setAuthorizedCaller(caller, target, authorized) ==
    AdminCall("setAuthorizedCaller", caller,
              [w EXCEPT !.authorizedCallers =
                            IF authorized THEN @ \cup {target} ELSE @ \ {target}])

\* emergencyWithdraw(token): the engine's whole balance goes to the contract owner
emergencyWithdraw(caller, token) ==
    AdminCall("emergencyWithdraw", caller,
              [w EXCEPT !.bal = Move(@, token, Engine, Owner, w.bal[token][Engine])])

\* ------------------------------------------------------------ specification
\* the swap instructions a caller can pass (part_017 only) and the minimum
\* swap output it can ask for (part_014 only)
SwapDatas == IF cfg.variant = "MorphoLiFi" THEN BOOLEAN ELSE {FALSE}
MinOuts == IF cfg.variant = "AaveCross" THEN {0, 60} ELSE {0}

\* <<caller, initiator>> of the callbacks invoked outside a loan of the engine
StrayCallers ==
    IF cfg.variant \in AaveVariants THEN {<<"alice", Engine>>, <<Lender, "alice">>}
    ELSE {<<"alice", Engine>>}

\* the callers of the administrative functions
AdminCallers == {Owner, "alice"}

Step ==
    \/ SizeLoan
    \/ GrantLoan
    \/ SwapLoan
    \/ SupplyCollateral
    \/ SettleDebt
    \/ Validate
    \/ SettleLoan
    \/ RepayDebt
    \/ WithdrawCollateral
    \/ SwapBack
    \/ SwapSurplus
    \/ Payout

Call ==
    \/ \E u \in Users, l \in Leverages, d \in Deposits, sd \in SwapDatas, m \in MinOuts :
          executeLeverage(u, l, d, sd, m)
    \/ \E u \in Users, sd \in SwapDatas : executeDeleverage(u, sd)
    \/ \E l \in PreviewLeverages, d \in Deposits : Preview(l, d)
    \/ \E op \in {"leverage", "deleverage"}, u \in Users : NestedCall(op, u, 200, 100)
    \/ \E c \in StrayCallers : LoanCallback(c[1], c[2])

Environment ==
    \/ \E u \in Users, b \in BOOLEAN : SetAuthorization(u, b)
    \/ \E u \in Users, a \in Delegations : ApproveDelegation(u, a)
    \/ \E u \in Users, a \in {0, MAX_UINT} : Approve(u, a)
    \/ \E u \in Users, b \in BOOLEAN : ApproveAToken(u, b)
    \/ \E p \in OraclePrices : OracleMoves(p)
    \/ \E p \in PoolPrices : PoolMoves(p)
    \/ \E i \in InterestSteps : TimePasses(i)
    \/ \E c \in AdminCallers, b \in BOOLEAN : setPaused(c, b)
    \/ \E c \in AdminCallers : setAuthorizedCaller(c, "alice", TRUE)
    \/ \E c \in AdminCallers, t \in Tokens : emergencyWithdraw(c, t)

Next == Step \/ Call \/ Environment

Spec == Init /\ [][Next]_vars

\* the engine together with the callback applied to the foreign kinds
DispatchNext ==
    \/ Next
    \/ \E k \in ForeignKinds : CallbackOfKind(k)

DispatchSpec == Init /\ [][DispatchNext]_vars

\* the Sizing Calculator on its own: small deposits and close leverages, so
\* that the floor of the fixed-point division shows
SizingLeverages == {150, 160, 200, 240, 250, 340, 499, 526}
SizingDeposits == {1, 3, 10, 100}

SizingNext ==
    \/ \E l \in SizingLeverages, d \in SizingDeposits : Preview(l, d)
    \/ \E l \in SizingLeverages, d \in SizingDeposits :
          executeLeverage("alice", l, d, TRUE, 0)
    \/ SizeLoan
    \/ GrantLoan
    \/ SwapLoan
    \/ SupplyCollateral
    \/ SettleDebt
    \/ Validate
    \/ SettleLoan

SizingSpec == Init /\ [][SizingNext]_vars

\* the market as two owners find it when interest is pending since its last
\* update, so that a debt share is not worth a whole number of units
StartInterest == CHOOSE i \in InterestSteps : \A j \in InterestSteps : j <= i

OrderInit ==
    /\ cfg \in Configs
    /\ w = [InitWorld EXCEPT !.pendingInterest =
                                 IF cfg.variant \in MorphoVariants THEN StartInterest ELSE 0]
    /\ pre = w
    /\ pc = 0
    /\ ctx = EmptyCtx
    /\ last = NoResult
    /\ quote = NoQuote
    /\ nested = "none"
    /\ opCount = 0
    /\ envCount = 0

OrderSpec == OrderInit /\ [][Next]_vars

\* the market as found when an owner has supplied collateral to the lending
\* protocol directly and has borrowed nothing
DirectSupply == InitialWallet \div 2

SuppliedInit ==
    /\ cfg \in Configs
    /\ w = [InitWorld EXCEPT
                !.collateral["alice"] = DirectSupply,
                !.bal = Move(@, "wsteth", "alice", Lender, DirectSupply)]
    /\ pre = w
    /\ pc = 0
    /\ ctx = EmptyCtx
    /\ last = NoResult
    /\ quote = NoQuote
    /\ nested = "none"
    /\ opCount = 0
    /\ envCount = 0

SuppliedSpec == SuppliedInit /\ [][Next]_vars

\* the Sizing Calculator at the width of the machine word. Amounts are counted
\* here in thousands of tokens (10^21 of the smallest unit), the oracle price
\* in 10^32 and the leverage in 10^16 as everywhere, so that the product
\* userDeposit * oraclePrice * (targetLeverage - PRECISION) is counted in 10^69.
\* type(uint256).max in that unit: floor((2^256 - 1) / 10^69)
WORD_MAX_E69 == 115792089

\* executeLeverage / simulateLeverage: the loan amount, or Panic when the
\* checked multiplication (Solidity 0.8) exceeds the word. The Delegated-Debt products carry an 18-decimal rate or
\* no rate: their unit is 10^53 or 10^37 and the word holds more than 10^23
\* of it, beyond every deposit drawn here.
flashWethChecked(wd, targetLeverage, userDeposit) ==
    IF /\ cfg.variant \in MorphoVariants
       /\ OraclePrice(wd) * (targetLeverage - PRECISION) > 0
       /\ userDeposit > WORD_MAX_E69 \div (OraclePrice(wd) * (targetLeverage - PRECISION))
    THEN Panic
    ELSE flashWeth(wd, targetLeverage, userDeposit)

\* deposits in thousands of tokens, and leverages up to MAX_LEVERAGE
WideDeposits == {1, 6, 25}
WideLeverages == {200, 499, 1730, MAX_LEVERAGE}

\* the sizing line of executeLeverage (op = "leverage") or of simulateLeverage
\* (op = "preview") applied to a deposit counted in thousands of tokens
SizeAtWidth(op, targetLeverage, userDeposit) ==
    /\ pc = 0
    /\ opCount < MaxOps
    /\ opCount' = opCount + 1
    /\ LET fl == flashWethChecked(w, targetLeverage, userDeposit)
       IN last' = [op |-> op, user |-> "alice",
                   status |-> IF fl = Panic THEN "Panic" ELSE "success",
                   ctx |-> [EmptyCtx EXCEPT !.op = "sizing",
                                            !.targetLeverage = targetLeverage,
                                            !.userDeposit = userDeposit,
                                            !.flash = IF fl = Panic THEN 0 ELSE fl]]
    /\ quote' = NoQuote
    /\ nested' = "none"
    /\ UNCHANGED <<cfg, w, pre, pc, ctx, envCount>>

WidthNext ==
    \/ \E op \in {"leverage", "preview"}, l \in WideLeverages, d \in WideDeposits :
          SizeAtWidth(op, l, d)
    \/ \E p \in OraclePrices : OracleMoves(p)

WidthSpec == Init /\ [][WidthNext]_vars

\* ------------------------------------------------------------ client hook
\* useLeverageContract: the hook is written against executeLeverage(uint256,
\* uint256, uint256) of part_014 and executeLeverage(uint256, uint256, bytes) of
\* part_017

\* what can go wrong in the calls the hook awaits: nothing; an error of the RPC
\* node before the engine transaction is sent, or while its receipt is awaited,
\* whose message is "Block at number ... could not be found" or another one
ClientFaults ==
    {"none", "blockNotFoundBeforeSubmit", "rpcBeforeSubmit",
     "blockNotFoundAtReceipt", "rpcAtReceipt"}

\* executeLeverage (hook): requiredDelegation = depositWei * ceil(targetLeverage)
requiredDelegation(targetLeverage, userDeposit) ==
    userDeposit * CeilDiv(targetLeverage, PRECISION)

\* the hook returns or throws without an engine transaction on record
ClientReturns(user, status) ==
    /\ last' = [op |-> "client", user |-> user, status |-> status,
                ctx |-> [EmptyCtx EXCEPT !.op = "client"]]
    /\ quote' = NoQuote
    /\ nested' = "none"
    /\ UNCHANGED <<w, pre, pc, ctx>>

\* the catch block of the hook: what it does with an error thrown before the
\* engine transaction was sent
ClientCatches(user, fault) ==
    ClientReturns(user, IF fault = "blockNotFoundBeforeSubmit" THEN "success" ELSE "thrown")

\* how the wait for the receipt of the engine transaction ends
ReceiptOf(fault) ==
    IF fault = "blockNotFoundAtReceipt" THEN "blockNotFound"
    ELSE IF fault = "rpcAtReceipt" THEN "rpcError"
    ELSE "waited"

\* the engine transaction sent by the hook on the world the hook's approvals
\* left: rejected by the entry checks, or started
ClientSubmits(op, user, wA, err, args, started) ==
    IF err # "ok"
    THEN /\ w' = wA
         /\ pre' = wA
         /\ last' = [op |-> op, user |-> user, status |-> err, ctx |-> args]
         /\ quote' = NoQuote
         /\ nested' = "none"
         /\ UNCHANGED <<pc, ctx>>
    ELSE /\ pre' = wA
         /\ w' = [started EXCEPT !.entered = TRUE]
         /\ ctx' = args
         /\ pc' = 1
         /\ last' = NoResult
         /\ nested' = "none"
         /\ UNCHANGED quote

\* executeLeverage(targetLeverage, userDeposit) of the hook, called by the
\* connected wallet with the default (empty) swap data
ClientExecuteLeverage(user, targetLeverage, userDeposit, fault) ==
    /\ pc = 0
    /\ opCount < MaxOps
    /\ opCount' = opCount + 1
    /\ UNCHANGED <<cfg, envCount>>
    /\ LET aave == cfg.variant \in AaveVariants
           required == requiredDelegation(targetLeverage, userDeposit)
           judged == IF ~aave THEN "none"
                     ELSE IF w.borrowAllowance[user] < required THEN "approved"
                     ELSE "sufficient"
           wA == [w EXCEPT
                     !.allowance[user] = IF @ < userDeposit THEN MAX_UINT ELSE @,
                     !.borrowAllowance[user] =
                         IF aave /\ @ < required THEN MAX_UINT ELSE @,
                     !.authorized[user] = IF aave THEN @ ELSE TRUE]
           args == [EmptyCtx EXCEPT !.op = "leverage",
                                    !.opType = 0,
                                    !.user = user,
                                    !.targetLeverage = targetLeverage,
                                    !.userDeposit = userDeposit,
                                    !.precheck = judged,
                                    !.receipt = ReceiptOf(fault)]
       IN IF fault \in {"blockNotFoundBeforeSubmit", "rpcBeforeSubmit"}
          THEN ClientCatches(user, fault)
          ELSE IF w.bal["wsteth"][user] < userDeposit
          THEN ClientReturns(user, "thrown")
          ELSE ClientSubmits("leverage", user, wA,
                             LeverageEntry(wA, user, targetLeverage, userDeposit),
                             args, Pull(wA, user, userDeposit))

\* executeDeleverage() of the hook, called by the connected wallet with the
\* default (empty) swap data
ClientExecuteDeleverage(user, fault) ==
    /\ pc = 0
    /\ opCount < MaxOps
    /\ opCount' = opCount + 1
    /\ UNCHANGED <<cfg, envCount>>
    /\ LET wA == [w EXCEPT !.aTokenApproved[user] =
                               IF cfg.variant \in AaveVariants THEN TRUE ELSE @]
           args == [EmptyCtx EXCEPT !.op = "deleverage",
                                    !.opType = 1,
                                    !.user = user,
                                    !.receipt = ReceiptOf(fault),
                                    !.collateralAmount = wA.collateral[user],
                                    !.borrowShares = wA.debt[user],
                                    !.debtAmount = debtAmountRead(wA, user),
                                    !.flash = flashAmount(debtAmountRead(wA, user))]
       IN IF fault \in {"blockNotFoundBeforeSubmit", "rpcBeforeSubmit"}
          THEN ClientCatches(user, fault)
          ELSE ClientSubmits("deleverage", user, wA, DeleverageEntry(wA, user), args, wA)

\* the wallets the hook finds: the delegation for a deposit of 10 at 5x is 50
\* by the hook's estimate
ClientLeverages == {150, 500}
ClientDeposits == {10}
ClientDelegations == {0, 50, 52, MAX_UINT}
ClientPrices == {11000, 13000}

ClientInit ==
    /\ cfg \in {c \in Configs : c.variant \in {"MorphoLiFi", "AaveCross"}}
    /\ \E a \in ClientDelegations, p \in ClientPrices, approved \in BOOLEAN :
          w = [InitWorld EXCEPT
                  !.oraclePrice = p,
                  !.poolPrice = p,
                  !.allowance["alice"] = IF approved THEN MAX_UINT ELSE 0,
                  !.aTokenApproved["alice"] = approved /\ cfg.variant \in AaveVariants,
                  !.authorized["alice"] = approved /\ cfg.variant \in MorphoVariants,
                  !.borrowAllowance["alice"] =
                      IF cfg.variant \in AaveVariants THEN a ELSE 0]
    /\ pre = w
    /\ pc = 0
    /\ ctx = EmptyCtx
    /\ last = NoResult
    /\ quote = NoQuote
    /\ nested = "none"
    /\ opCount = 0
    /\ envCount = 0

ClientNext ==
    \/ \E l \in ClientLeverages, d \in ClientDeposits, f \in ClientFaults :
          ClientExecuteLeverage("alice", l, d, f)
    \/ \E f \in ClientFaults : ClientExecuteDeleverage("alice", f)
    \/ SizeLoan
    \/ GrantLoan
    \/ SwapLoan
    \/ SupplyCollateral
    \/ SettleDebt
    \/ Validate
    \/ SettleLoan
    \/ RepayDebt
    \/ WithdrawCollateral
    \/ SwapBack
    \/ Payout

ClientSpec == ClientInit /\ [][ClientNext]_vars

\* the margin calculation on its own, over the thresholds a market can have:
\* 0 < LLTV < 1 (Self-Repay); 0 <= LTV <= liquidation threshold < 1, which the
\* lending pool enforces on every reserve (Delegated-Debt)
Percents == 1 .. (PRECISION - 1)

MarginConfigs ==
    {c \in [variant : Variants, aerodromeRouter : {TRUE},
            premiumBps : {0}, swapFee : {0},
            lltv : Percents,
            ltvBps : {p * (BPS_BASE \div PRECISION) : p \in Percents \cup {0}},
            liqThresholdBps : {p * (BPS_BASE \div PRECISION) : p \in Percents}] :
        /\ (c.variant \in MorphoVariants
               => c.ltvBps = 0 /\ c.liqThresholdBps = c.lltv * (BPS_BASE \div PRECISION))
        /\ (c.variant \in AaveVariants
               => c.ltvBps <= c.liqThresholdBps
                  /\ c.lltv = c.liqThresholdBps \div (BPS_BASE \div PRECISION))}

MarginInit ==
    /\ cfg \in MarginConfigs
    /\ w = InitWorld
    /\ pre = InitWorld
    /\ pc = 0
    /\ ctx = EmptyCtx
    /\ last = NoResult
    /\ quote = NoQuote
    /\ nested = "none"
    /\ opCount = 0
    /\ envCount = 0

MarginNext == MaxSafeLeverageView

MarginSpec == MarginInit /\ [][MarginNext]_vars

\* ------------------------------------------------------------ properties
Succeeded(op) == last.op = op /\ last.status = "success"

Failed(op) == last.op = op /\ last.status \notin {"success", "none"}

EngineBalance(wd, tok) == wd.bal[tok][Engine]

\* C1: openPosition never succeeds leaving the owner's health factor below 1.0:
\* right after a successful executeLeverage the owner's health factor is at
\* least MIN_HEALTH_FACTOR.
C1_OpenNeverUnsafe ==
    Succeeded("leverage") => healthFactorOf(w, last.user) >= MIN_HEALTH_FACTOR

\* an open that succeeded close to the limit (health factor within 10% of 1.0)
C1_Witness ==
    /\ Succeeded("leverage")
    /\ last.ctx.userDeposit > 0
    /\ healthFactorOf(w, last.user) >= MIN_HEALTH_FACTOR
    /\ healthFactorOf(w, last.user) < MIN_HEALTH_FACTOR + 10

\* C2: every successful closePosition leaves the owner's debt shares at exactly
\* zero, whatever interest accrued between the position read and the repay call,
\* and its repay call passes the shares read and a zero asset amount
\* (Self-Repay deployments, whose debt is held in shares).
C2_CloseClearsDebtExactly ==
    (Succeeded("deleverage") /\ cfg.variant \in MorphoVariants)
        => /\ w.debt[last.user] = 0
           /\ last.ctx.repayAssets = 0
           /\ last.ctx.repayShares = last.ctx.borrowShares

\* C3: a failure at any step of openPosition or closePosition, and a call
\* rejected by its entry checks, leaves every balance, position and permission
\* as it was before the call, with no operation in flight.
C3_FailureRestoresEverything ==
    [][/\ (pc > 0 /\ pc' = 0 /\ last'.status # "success")
            => (w' = pre /\ ~w'.entered /\ ctx' = EmptyCtx)
       /\ (pc = 0 /\ pc' = 0 /\ last'.op \in {"leverage", "deleverage"})
            => w' = w]_vars

\* an open that failed at the health check, after the deposit, the swap, the
\* supply and the borrow had been made
C3_Witness ==
    /\ Failed("leverage")
    /\ last.status = "UnsafeLeverage"
    /\ Len(last.ctx.trace) >= 4
    /\ w = pre
    /\ w.collateral[last.user] = 0

\* C4: while an operation is in flight, a nested executeLeverage or
\* executeDeleverage fails with the reentrancy error, starts nothing, and the
\* operation in flight can still take its next step.
C4_NestedCallRejected ==
    nested # "none"
        => /\ nested = "ReentrancyGuardReentrantCall"
           /\ pc > 0
           /\ w.entered
           /\ ENABLED Step

\* a nested call was attempted and rejected during an open
C4_Witness ==
    /\ nested = "ReentrancyGuardReentrantCall"
    /\ ctx.op = "leverage"
    /\ pc > 0

\* the owner lacks the permission the open needs: the standing authorization
\* (Self-Repay) or a delegated allowance covering the loan (Delegated-Debt)
PermissionMissing(wd, user, targetLeverage, userDeposit) ==
    IF cfg.variant \in MorphoVariants THEN ~wd.authorized[user]
    ELSE wd.borrowAllowance[user] < flashWeth(wd, targetLeverage, userDeposit)

\* inputs that pass the parameter checks of executeLeverage
ValidOpenInputs(wd, targetLeverage, userDeposit) ==
    /\ targetLeverage > PRECISION
    /\ targetLeverage <= MAX_LEVERAGE
    /\ userDeposit > 0
    /\ flashWeth(wd, targetLeverage, userDeposit) > 0

\* C5: an open with valid inputs by an owner whose authorization is absent
\* (Self-Repay) or whose delegated allowance is below the loan amount
\* (Delegated-Debt) fails with AuthorizationNotGranted / InsufficientDelegation,
\* and nothing has moved.
C5_GatingError ==
    (/\ Failed("leverage")
     /\ ~w.paused
     /\ ValidOpenInputs(w, last.ctx.targetLeverage, last.ctx.userDeposit)
     /\ PermissionMissing(w, last.user, last.ctx.targetLeverage, last.ctx.userDeposit))
        => /\ last.status \in {"AuthorizationNotGranted", "InsufficientDelegation"}
           /\ w = pre

\* C6: after every successful open and every successful close the engine holds
\* none of the collateral asset and none of the debt asset.
C6_EngineDrained ==
    (Succeeded("leverage") \/ Succeeded("deleverage"))
        => /\ EngineBalance(w, "wsteth") = 0
           /\ EngineBalance(w, "weth") = 0

\* no price movement, no swap fee and no interest since the start
NothingMoved ==
    /\ envCount = 0
    /\ cfg.swapFee = 0
    /\ w.poolPrice = w.oraclePrice
    /\ w.pendingInterest = 0

Sized ==
    /\ pc > 0
    /\ ctx.op = "leverage"
    /\ (cfg.variant = "AaveSingle" \/ pc > 1)

\* the open in flight and the latest preview are for the same deposit
SameDeposit == quote # NoQuote /\ quote.userDeposit = ctx.userDeposit

\* C8 (as amended): for a fixed deposit and rate the loan amount never decreases
\* as the target leverage increases; the floor of the division can make two
\* different leverages give the same loan amount.
C8_LoanNonDecreasing ==
    (Sized /\ SameDeposit)
        => /\ (quote.targetLeverage < ctx.targetLeverage
                   => quote.flashWethAmount <= ctx.flash)
           /\ (quote.targetLeverage > ctx.targetLeverage
                   => quote.flashWethAmount >= ctx.flash)

\* C8 (as stated): the loan amount strictly increases with the target leverage.
C8_LoanStrictlyIncreasing ==
    (Sized /\ SameDeposit /\ quote.targetLeverage < ctx.targetLeverage)
        => quote.flashWethAmount < ctx.flash

\* two different leverages sized to the same non-zero loan
C8_Witness ==
    /\ Sized
    /\ SameDeposit
    /\ quote.targetLeverage < ctx.targetLeverage
    /\ quote.flashWethAmount = ctx.flash
    /\ ctx.flash > 0

\* C9: after a successful open the owner's recorded debt equals the loan amount
\* drawn and the engine holds neither debt asset nor collateral asset.
C9_DebtEqualsLoan ==
    Succeeded("leverage")
        => /\ debtAssetsOf(w, last.user) = last.ctx.flash
           /\ EngineBalance(w, "weth") = 0
           /\ EngineBalance(w, "wsteth") = 0

\* the open in flight was previewed with the same inputs just before
Previewed ==
    /\ Sized
    /\ SameDeposit
    /\ quote.targetLeverage = ctx.targetLeverage

\* C10: for inputs that openPosition accepts, the preview returns the loan
\* amount that the open requests and the same expected debt, and a preview
\* changes nothing.
C10_PreviewMatchesOpen ==
    [][/\ Previewed' => /\ ctx'.flash = quote'.flashWethAmount
                        /\ ctx'.expectedDebt = quote'.totalDebt
       /\ (last'.op = "preview" /\ opCount' # opCount)
            => /\ w' = w
               /\ UNCHANGED <<pre, pc, ctx, cfg>>]_vars

\* an open whose loan was granted, previewed just before with the same inputs
C10_Witness ==
    /\ Previewed
    /\ ctx.flash > 0
    /\ EngineBalance(w, DebtToken) >= ctx.flash
    /\ Len(ctx.trace) >= 1

\* a sizing request outside 1.0 < targetLeverage <= maxLeverage, or with no deposit
OutOfRange(targetLeverage, userDeposit) ==
    \/ targetLeverage <= PRECISION
    \/ targetLeverage > MAX_LEVERAGE
    \/ userDeposit = 0

\* C11: an open or a preview whose targetLeverage is outside
\* 1.0 < targetLeverage <= maxLeverage, or whose deposit is zero, fails with
\* InvalidParameters (the engine not being paused) and returns no sized result.
C11_OutOfRangeRejected ==
    (/\ last.op \in {"leverage", "preview"}
     /\ ~w.paused
     /\ OutOfRange(last.ctx.targetLeverage, last.ctx.userDeposit))
        => last.status = "InvalidParameters"

\* the worked example: deposit 1.0, target leverage 2.0, on a deployment that
\* converts through a rate, with the rate at 1.1 and the venue at the oracle rate
WorkedExample(c) ==
    /\ c.targetLeverage = 2 * PRECISION
    /\ c.userDeposit = PRECISION
    /\ cfg.variant # "AaveSingle"
    /\ w.oraclePrice = (11 * ORACLE_PRICE_SCALE) \div 10
    /\ w.poolPrice = w.oraclePrice

\* C12: with deposit 1.0, rate 1.1, targetLeverage 2.0 and liquidation threshold
\* 0.81 the preview returns loanAmount 1.1, expectedCollateral 2.0, expectedDebt
\* 1.1 and healthFactor 1.62; the open with these inputs (no swap fee) is not
\* judged unsafe, and when it succeeds the owner holds collateral 2.0 against a
\* debt of 1.1 with a health factor of at least 1.0 (1.62 as the Self-Repay
\* engine computes it).
C12_WorkedExample ==
    /\ (last.op = "preview" /\ WorkedExample(last.ctx))
          => /\ last.status = "success"
             /\ last.ctx.flash = (11 * PRECISION) \div 10
             /\ last.ctx.collateralAmount = 2 * PRECISION
             /\ last.ctx.expectedDebt = (11 * PRECISION) \div 10
             /\ last.ctx.hf = (162 * PRECISION) \div 100
    /\ (last.op = "leverage" /\ WorkedExample(last.ctx) /\ cfg.swapFee = 0)
          => /\ last.status # "UnsafeLeverage"
             /\ last.status = "success"
                   => /\ last.ctx.flash = (11 * PRECISION) \div 10
                      /\ w.collateral[last.user] = 2 * PRECISION
                      /\ debtAssetsOf(w, last.user) = (11 * PRECISION) \div 10
                      /\ last.ctx.hf >= MIN_HEALTH_FACTOR
                      /\ cfg.variant \in MorphoVariants
                            => last.ctx.hf = (162 * PRECISION) \div 100

\* the worked example was opened and the validator computed 1.62
C12_Witness ==
    /\ Succeeded("leverage")
    /\ WorkedExample(last.ctx)
    /\ cfg.swapFee = 0
    /\ w.collateral[last.user] = 2 * PRECISION
    /\ last.ctx.hf = (162 * PRECISION) \div 100

\* C13: a loan callback invoked by a party other than the lending protocol, or
\* (Delegated-Debt) for a loan whose initiator is not the engine, fails with
\* InvalidCaller and runs no step: no balance, position or permission changes
\* and no operation is in flight.
C13_CallbackGuarded ==
    [][(/\ last'.op = "callback"
        /\ opCount' # opCount
        /\ \/ last'.user # Lender
           \/ (cfg.variant \in AaveVariants /\ last'.ctx.user # Engine))
          => /\ last'.status = "InvalidCaller"
             /\ w' = w
             /\ pc' = 0
             /\ ctx' = EmptyCtx]_vars

\* the lending pool called back for a loan that an outside party initiated
C13_Witness ==
    /\ last.op = "callback"
    /\ last.user = Lender
    /\ last.ctx.user \in Users
    /\ last.status = "InvalidCaller"
    /\ pc = 0

\* the owner's collateral, valued in the unit the debt is valued in
collateralValueOf(wd, user) ==
    IF cfg.variant \in AaveVariants THEN getUserAccountData(wd, user).totalCollateralBase
    ELSE (wd.collateral[user] * OraclePrice(wd)) \div ORACLE_PRICE_SCALE

\* the owner's debt value
debtValueOf(wd, user) ==
    IF cfg.variant \in AaveVariants THEN getUserAccountData(wd, user).totalDebtBase
    ELSE debtAssetsOf(wd, user)

\* a position the Health Validator must refuse
UnsafePosition(wd, user) ==
    \/ healthFactorOf(wd, user) < MIN_HEALTH_FACTOR
    \/ collateralValueOf(wd, user) <= debtValueOf(wd, user)
    \/ wd.collateral[user] = 0
    \/ wd.debt[user] = 0

\* C14: when the Health Validator runs at the end of an open and the owner's
\* health factor is below 1.0, or the collateral value is not strictly greater
\* than the debt value, or collateral or debt is zero, the open fails with
\* UnsafeLeverage; every successful open leaves collateral > 0, debt > 0 and the
\* collateral value strictly greater than the debt value.
C14_ValidatorRefusesUnsafe ==
    [][/\ (At("validate") /\ UnsafePosition(w, ctx.user))
            => (pc' = 0 /\ last'.status = "UnsafeLeverage")
       /\ Succeeded("leverage")'
            => /\ w'.collateral[last'.user] > 0
               /\ w'.debt[last'.user] > 0
               /\ collateralValueOf(w', last'.user) > debtValueOf(w', last'.user)]_vars

\* the validator is about to run on a position whose health factor is below 1.0
C14_Witness ==
    /\ At("validate")
    /\ w.collateral[ctx.user] > 0
    /\ w.debt[ctx.user] > 0
    /\ healthFactorOf(w, ctx.user) < MIN_HEALTH_FACTOR

\* C15: no computation adds a collateral-asset amount to a debt-asset amount
\* without converting one of them through the rate; in particular, on the
\* deployments with two assets, the collateral amount reported by the
\* completion record of a close is the collateral amount that was withdrawn.
C15_RecordInCollateralUnits ==
    (Succeeded("deleverage") /\ cfg.variant # "AaveSingle")
        => last.ctx.collateralWithdrawnWsteth = last.ctx.withdrawn

\* the owner on whose behalf the step from the current state acts
Actor == IF pc > 0 THEN ctx.user ELSE IF pc' > 0 THEN ctx'.user ELSE last'.user

\* collateral, debt shares and wallet balances of an owner
PositionOf(wd, user) ==
    <<wd.collateral[user], wd.debt[user], wd.bal["wsteth"][user], wd.bal["weth"][user]>>

\* a step of an engine call leaves every owner but the acting one untouched
FrameStep ==
    envCount' = envCount
        => \A v \in Users : v # Actor => PositionOf(w', v) = PositionOf(w, v)

\* an open by an owner without a position completes, the market being as it
\* was at the start except for what engine calls did to it
OpenCompletes ==
    /\ pc > 0
    /\ pc' = 0
    /\ last'.op = "leverage"
    /\ last'.status = "success"
    /\ envCount = 0
    /\ pre.collateral[ctx.user] = 0
    /\ pre.debt[ctx.user] = 0

\* the debt shares an open gets when no other owner has acted before it
FirstMoverShares(loan) ==
    IF cfg.variant \in AaveVariants THEN loan
    ELSE toSharesUp(loan,
                    InitWorld.totalBorrowAssets + StartInterest,
                    InitWorld.totalBorrowShares)

\* the collateral an open gets at the rates of the start
FirstMoverCollateral(loan, userDeposit, swaps) ==
    IF cfg.variant = "AaveSingle" THEN loan + userDeposit
    ELSE userDeposit + (IF swaps THEN SwapOutput(InitWorld, "weth", loan) ELSE 0)

\* the part of the first mover's outcome that every open gets
SameButShares ==
    /\ w'.collateral[ctx.user]
          = FirstMoverCollateral(ctx.flash, ctx.userDeposit,
                                 cfg.variant # "MorphoLiFi" \/ ctx.swapData
                                     \/ cfg.aerodromeRouter)
    /\ w'.bal["wsteth"][ctx.user] = pre.bal["wsteth"][ctx.user] - ctx.userDeposit
    /\ w'.bal["weth"][ctx.user] = pre.bal["weth"][ctx.user]
    /\ debtAssetsOf(w', ctx.user) = ctx.flash

C17_AdminGating ==
    [][/\ (/\ w.paused
           /\ pc = 0
           /\ opCount' # opCount
           /\ (pc' > 0 \/ last'.op \in {"leverage", "deleverage"}))
            => (pc' = 0 /\ last'.status = "ContractPaused" /\ w' = w)
       /\ (last'.op \in AdminFunctions /\ envCount' # envCount /\ last'.user # Owner)
            => (last'.status = "Unauthorized" /\ w' = w)
       /\ (w'.paused # w.paused)
            => /\ last'.op = "setPaused"
               /\ last'.user = Owner
               /\ last'.status = "success"
               /\ envCount' # envCount]_vars

\* an operation was refused because the engine is paused
C17_Witness ==
    /\ w.paused
    /\ last.op \in {"leverage", "deleverage"}
    /\ last.status = "ContractPaused"
    /\ pc = 0

\* C18: getMaxSafeLeverage() is the theoretical maximum 1 / (1 - threshold)
\* reduced by the margin (95% of it, rounded down, in the Self-Repay
\* deployments; 1 / (1 - 0.9 * LTV), rounded down and capped at MAX_LEVERAGE,
\* in the Delegated-Debt deployments), and for every threshold strictly between
\* 0 and 1 it is strictly below 1 / (1 - liquidationThreshold).
C18_MaxSafeLeverageBelowMaximum ==
    last.op = "getMaxSafeLeverage"
        => LET r == last.ctx.targetLeverage
           IN IF cfg.variant \in MorphoVariants
              THEN /\ r * (PRECISION - cfg.lltv) < PRECISION * PRECISION
                   /\ r * 100 * (PRECISION - cfg.lltv) <= 95 * PRECISION * PRECISION
                   /\ (r + 2) * 100 * (PRECISION - cfg.lltv) > 95 * PRECISION * PRECISION
              ELSE /\ r * (BPS_BASE - cfg.liqThresholdBps) < BPS_BASE * PRECISION
                   /\ r * (10 * BPS_BASE - 9 * cfg.ltvBps) <= 10 * BPS_BASE * PRECISION
                   /\ r <= MAX_LEVERAGE
                   /\ r >= PRECISION

\* the margin was computed for a market whose threshold allows leverage
C18_Witness ==
    /\ last.op = "getMaxSafeLeverage"
    /\ last.ctx.targetLeverage > 2 * PRECISION
    /\ \/ cfg.variant \in MorphoVariants /\ cfg.lltv = LLTV
       \/ cfg.variant \in AaveVariants /\ cfg.ltvBps = cfg.liqThresholdBps

\* C19: a close by an owner whose debt and collateral are both zero fails with
\* NoDebtPosition (the engine not being paused), before any loan is requested
\* and with nothing changed.
C19_NoPositionError ==
    (/\ Failed("deleverage")
     /\ ~w.paused
     /\ w.debt[last.user] = 0
     /\ w.collateral[last.user] = 0)
        => /\ last.status = "NoDebtPosition"
           /\ last.ctx.trace = <<>>
           /\ w = pre

\* the loan of the open in flight has been requested
LoanRequested ==
    At("grant") \/ \E i \in 1 .. Len(ctx.trace) : ctx.trace[i] = "grant"

\* C20: in every open, the deposit is in the engine's custody only if the
\* owner's authorization (Self-Repay) or delegation (Delegated-Debt) was found
\* sufficient before, and the loan is requested only after the parameter,
\* permission and deposit-transfer checks have passed.
C20_ChecksBeforeFunds ==
    (pc > 0 /\ ctx.op = "leverage")
        => /\ ~PermissionMissing(pre, ctx.user, ctx.targetLeverage, ctx.userDeposit)
           /\ LoanRequested
                 => /\ ValidOpenInputs(pre, ctx.targetLeverage, ctx.userDeposit)
                    /\ pre.bal["wsteth"][ctx.user] >= ctx.userDeposit

\* a close of a debt held in shares is in flight, its position read made
ShareCloseInFlight ==
    /\ pc > 0
    /\ ctx.op = "deleverage"
    /\ cfg.variant \in MorphoVariants

\* C21: at the position read of a close, the owner's debt shares are converted
\* to an amount rounding up, debtAmount * totalBorrowShares >= borrowShares *
\* totalBorrowAssets on the totals read, and the temporary loan requested is
\* never smaller than debtAmount.
C21_DebtReadRoundsUp ==
    ShareCloseInFlight
        => /\ ctx.debtAmount * pre.totalBorrowShares
                 >= ctx.borrowShares * pre.totalBorrowAssets
           /\ ctx.flash >= ctx.debtAmount

\* a close is in flight, its loan requested
CloseInFlight == pc > 0 /\ ctx.op = "deleverage"

\* C22: the loan requested by a close is the computed debt amount plus the
\* buffer debtAmount / 1000 + 1 in the Self-Repay deployments, and exactly the
\* computed debt amount in the Delegated-Debt deployments.
C22_LoanBufferByVariant ==
    CloseInFlight
        => ctx.flash = IF cfg.variant \in MorphoVariants
                       THEN ctx.debtAmount + ctx.debtAmount \div 1000 + 1
                       ELSE ctx.debtAmount

\* the assets that retire the shares read, at the totals the repay call sees
\* (interest pending since the last update accrued)
assetsToRetire(wd, shares) ==
    toAssetsUp(shares, accrueInterest(wd).totalBorrowAssets,
               accrueInterest(wd).totalBorrowShares)

\* C23: when the interest accrued between the position read and the repay call
\* makes the assets that retire the owner's shares exceed the loan drawn, the
\* close aborts as a whole with nothing changed; the repay step never retires
\* only part of the shares, and no close ends with a reduced, non-zero debt.
C23_ShortLoanAbortsClose ==
    [][/\ (/\ ShareCloseInFlight
           /\ At("repay")
           /\ assetsToRetire(w, ctx.borrowShares) > ctx.flash)
            => (pc' = 0 /\ last'.status # "success" /\ w' = pre)
       /\ (ShareCloseInFlight /\ At("repay") /\ pc' > pc)
            => w'.debt[ctx.user] = 0
       /\ (ShareCloseInFlight /\ pc' = 0 /\ last'.status = "success")
            => w'.debt[ctx.user] = 0]_vars

\* C24: at the swap step of a close (Self-Repay deployments) the first swap
\* sells the collateral amount computed from the oracle rate for the debt-asset
\* deficit with a 2% buffer, rounded up and capped at the collateral the engine
\* holds; if the debt-asset balance is still below the loan, a second swap sells
\* all remaining collateral; the step fails, with InsufficientSwapOutput, only
\* if the balance is below the loan after that, never while unswapped
\* collateral remains in the engine.
C24_SwapFallbackBeforeError ==
    [][(At("swapBack") /\ pc' # pc /\ cfg.variant \in MorphoVariants)
          => LET held == w.bal["wsteth"][Engine]
                 weth == w.bal["weth"][Engine]
                 deficit == IF ctx.flash > weth THEN ctx.flash - weth ELSE 0
                 first == IF deficit = 0 THEN 0
                          ELSE Min(CeilDiv(deficit * ORACLE_PRICE_SCALE * 102,
                                           OraclePrice(w) * 100),
                                   held)
                 afterFirst == weth + SwapOutput(w, "wsteth", first)
                 second == IF deficit > 0 /\ afterFirst < ctx.flash
                           THEN held - first ELSE 0
                 final == afterFirst + SwapOutput(w, "wsteth", second)
             IN IF final < ctx.flash
                THEN /\ pc' = 0
                     /\ last'.status = "InsufficientSwapOutput"
                     /\ first + second = held
                ELSE /\ pc' = pc + 1
                     /\ w'.bal["wsteth"][Engine] = held - first - second
                     /\ w'.bal["weth"][Engine] = final]_vars

\* C25: in a close of the Self-Repay deployments, when the callback is about to
\* return (payout made, the loan not yet pulled back) the owner has been paid
\* in the collateral asset only, the engine has handed over its entire
\* collateral balance, and the engine's debt-asset balance is exactly the loan
\* to be settled; a successful close has transferred no debt asset to the
\* owner.
C25_OwnerPaidInCollateralOnly ==
    /\ (ShareCloseInFlight /\ At("settleLoan"))
          => /\ ctx.returnedDebtToken = 0
             /\ w.bal["weth"][ctx.user] = pre.bal["weth"][ctx.user]
             /\ EngineBalance(w, "wsteth") = 0
             /\ w.bal["wsteth"][ctx.user] = pre.bal["wsteth"][ctx.user] + ctx.returned
             /\ EngineBalance(w, "weth") = ctx.flash
    /\ (Succeeded("deleverage") /\ cfg.variant \in MorphoVariants)
          => last.ctx.returnedDebtToken = 0

\* C26: every successful close withdraws the owner's full collateral: right
\* after it the owner's collateral and debt recorded in the lending protocol
\* are both zero, and a second close by the same owner is refused by the entry
\* checks with NoDebtPosition.
C26_CloseWithdrawsEverything ==
    Succeeded("deleverage")
        => /\ w.collateral[last.user] = 0
           /\ w.debt[last.user] = 0
           /\ DeleverageEntry(w, last.user) = "NoDebtPosition"

\* the collateral asset the open obtained for the loan: the output of the swap,
\* or the loan itself where the loan is made in the collateral asset
CollateralForLoan == IF cfg.variant = "AaveSingle" THEN ctx.flash ELSE ctx.fromSwap

\* C27: in an open, the collateral received from the swap is the change of the
\* engine's collateral balance across the swap, and the supply step puts
\* exactly userDeposit plus that amount on the owner's position: the owner's
\* collateral increases by that sum, taken from the engine, and the engine is
\* left with no more of the collateral asset than it held before the open.
C27_SupplyDepositPlusSwapped ==
    [][/\ (At("swap") /\ pc' = pc + 1)
            => ctx'.fromSwap = EngineBalance(w', "wsteth") - EngineBalance(w, "wsteth")
       /\ (At("supply") /\ pc' = pc + 1)
            => /\ w'.collateral[ctx.user]
                     = w.collateral[ctx.user] + ctx.userDeposit + CollateralForLoan
               /\ EngineBalance(w', "wsteth")
                     = EngineBalance(w, "wsteth") - (ctx.userDeposit + CollateralForLoan)
               /\ EngineBalance(w', "wsteth") = EngineBalance(pre, "wsteth")]_vars

\* collateral was supplied for an open whose swap delivered less than the
\* oracle rate gives for the loan
C27_Witness ==
    /\ ctx.op = "leverage"
    /\ At("settleDebt")
    /\ ctx.fromSwap > 0
    /\ ctx.fromSwap < (ctx.flash * ORACLE_PRICE_SCALE) \div OraclePrice(w)
    /\ w.collateral[ctx.user] = ctx.userDeposit + ctx.fromSwap
    /\ EngineBalance(w, "wsteth") = 0

\* the steps of an open that the Leverage Orchestrator names, in its order
\* (a deployment with one asset has no swap)
OrchestratorOrder ==
    IF cfg.variant = "AaveSingle" THEN <<"grant", "supply", "settleDebt", "validate">>
    ELSE <<"grant", "swap", "supply", "settleDebt", "validate">>

IsOrchestratorStep(step) == step \in {"grant", "swap", "supply", "settleDebt", "validate"}

\* the open in flight has made the step
Made(step) == \E i \in 1 .. Len(ctx.trace) : ctx.trace[i] = step

\* C28: an open goes DepositPulled, LoanRequested, Swapped, CollateralSupplied,
\* DebtSettled, Validated, Done with no step skipped or reordered: the deposit
\* is in custody before the loan is requested, the loan has been sold when the
\* collateral is supplied, a successful open made every step once and in this
\* order, the position and health factor at success are the ones the Health
\* Validator judged, and LeverageExecuted is recorded only once the validator
\* has passed, by every successful open and by no failed one.
C28_OpenStepOrder ==
    /\ (pc > 0 /\ ctx.op = "leverage" /\ ~Made("grant"))
          => EngineBalance(w, "wsteth") = EngineBalance(pre, "wsteth") + ctx.userDeposit
    /\ (pc > 0 /\ ctx.op = "leverage" /\ At("supply") /\ cfg.variant # "AaveSingle")
          => EngineBalance(w, "weth") = EngineBalance(pre, "weth")
    /\ (pc > 0 /\ ctx.op = "leverage" /\ ctx.event = "LeverageExecuted")
          => Made("validate")
    /\ Succeeded("leverage")
          => /\ SelectSeq(last.ctx.trace, IsOrchestratorStep) = OrchestratorOrder
             /\ last.ctx.event = "LeverageExecuted"
             /\ last.ctx.hf = healthFactorOf(w, last.user)
    /\ Failed("leverage") => last.ctx.event = "none"

\* the leverage a position realizes: collateral value over the owner's equity,
\* both in the unit of the debt
realizedLeverage(wd, user) ==
    (collateralValueOf(wd, user) * PRECISION)
        \div (collateralValueOf(wd, user) - debtValueOf(wd, user))

\* C29: the completion record of a successful open carries the owner's final
\* collateral (as an amount or as its value), the final debt as an amount of
\* the debt asset, the realized leverage collateral value / (collateral value -
\* debt value) and the health factor the Health Validator computed.
C29_OpenRecordFields ==
    Succeeded("leverage")
        => /\ last.ctx.event = "LeverageExecuted"
           /\ last.ctx.totalCollateral
                 \in {w.collateral[last.user], collateralValueOf(w, last.user)}
           /\ last.ctx.totalDebt = debtAssetsOf(w, last.user)
           /\ last.ctx.leverage = realizedLeverage(w, last.user)
           /\ last.ctx.hf = healthFactorOf(w, last.user)

\* C30: an open with userDeposit == 0 (leverage in range, engine not paused)
\* fails with InsufficientDeposit, and an open with valid inputs and the
\* owner's permission in place whose caller lacks the balance or the allowance
\* for the deposit fails with a transfer error; in both cases no loan was
\* requested and nothing changed, and no open gets past its entry checks
\* without a deposit that could be pulled.
C30_DepositErrors ==
    /\ (/\ last.op = "leverage"
        /\ ~w.paused
        /\ last.ctx.targetLeverage > PRECISION
        /\ last.ctx.targetLeverage <= MAX_LEVERAGE
        /\ last.ctx.userDeposit = 0)
          => /\ last.status = "InsufficientDeposit"
             /\ last.ctx.trace = <<>>
             /\ w = pre
    /\ (pc > 0 /\ ctx.op = "leverage")
          => /\ ctx.userDeposit > 0
             /\ CanPull(pre, ctx.user, ctx.userDeposit)
    /\ (/\ Failed("leverage")
        /\ ~w.paused
        /\ ValidOpenInputs(w, last.ctx.targetLeverage, last.ctx.userDeposit)
        /\ ~PermissionMissing(w, last.user, last.ctx.targetLeverage, last.ctx.userDeposit)
        /\ ~CanPull(w, last.user, last.ctx.userDeposit))
          => /\ last.status = "ERC20TransferError"
             /\ last.ctx.trace = <<>>
             /\ w = pre

\* C31: the health factor is the unbounded value whenever the debt is zero:
\* the position views return it, without failing, for every owner with zero
\* debt (shares) and for a market with zero total borrow shares, and a preview
\* whose inputs are accepted and whose loan amount is 0 succeeds and returns it.
C31_ZeroDebtUnbounded ==
    /\ \A u \in Users :
          (w.debt[u] = 0 \/ (cfg.variant \in MorphoVariants /\ w.totalBorrowShares = 0))
              => healthFactorOf(w, u) = MAX_UINT
    /\ (/\ last.op = "preview"
        /\ last.ctx.targetLeverage > PRECISION
        /\ last.ctx.userDeposit > 0
        /\ last.ctx.flash = 0)
          => /\ last.status = "success"
             /\ last.ctx.hf = MAX_UINT


\* the Health Validator's verdict on the owner's position: "ok" or the error
ValidatorVerdict(wd, user) ==
    IF cfg.variant \in MorphoVariants THEN _validatePosition(wd, user)
    ELSE _validateFinalPosition(wd, user)

\* an open about to be validated whose leverage is within getMaxSafeLeverage(),
\* whose loan is not zero and whose swap (if the deployment swaps at all) was
\* made at the oracle rate, without slippage and without fee
SafeOpenAtValidation ==
    /\ At("validate")
    /\ ctx.op = "leverage"
    /\ ctx.targetLeverage > PRECISION
    /\ ctx.targetLeverage <= getMaxSafeLeverage
    /\ ctx.flash > 0
    /\ cfg.swapFee = 0
    /\ w.poolPrice = w.oraclePrice
    /\ (cfg.variant = "AaveSingle" \/ LeverageSwaps)

LendingPositionOf(wd, user) == <<wd.collateral[user], wd.debt[user]>>

CollateralOnly(wd, user) == wd.collateral[user] > 0 /\ wd.debt[user] = 0

\* C34: closePosition called by an owner who holds collateral but no debt
\* (shares) fails with NoDebtPosition, the engine not being paused and the
\* owner's authorization standing, and withdraws nothing: no close is ever in
\* flight for such an owner.
C34_CollateralOnlyCloseRejected ==
    /\ (/\ pc = 0
        /\ last.op = "deleverage"
        /\ CollateralOnly(w, last.user)
        /\ ~w.paused
        /\ (cfg.variant \in MorphoVariants => w.authorized[last.user]))
          => last.status = "NoDebtPosition"
    /\ (pc > 0 /\ ctx.op = "deleverage") => ~CollateralOnly(pre, ctx.user)


\* how many times a step was made in a trace of steps
Occurrences(trace, step) == Cardinality({i \in 1 .. Len(trace) : trace[i] = step})

\* the operations that take a temporary loan
EngineOps == {"leverage", "deleverage"}

C36_SizingNeverOverflows ==
    (/\ last.ctx.op = "sizing"
     /\ last.ctx.targetLeverage > PRECISION
     /\ last.ctx.targetLeverage <= MAX_LEVERAGE)
        => last.status # "Panic"


\* C37: in the client of the Delegated-Debt deployment, whenever the hook's
\* pre-check judges the delegation sufficient (delegation >= deposit *
\* ceil(targetLeverage)) and sends the open without topping it up, the engine's
\* own check (delegation >= loan amount) passes: the open does not fail with
\* InsufficientDelegation.
C37_PrecheckImpliesOnChainCheck ==
    (/\ last.op = "leverage"
     /\ last.ctx.precheck = "sufficient")
        => last.status # "InsufficientDelegation"

\* C38: the hook's executeLeverage / executeDeleverage hand back a receipt
\* with status success only if the engine transaction was sent and confirmed
\* as successful; an error met earlier is never reported as a success.
C38_SuccessOnlyIfConfirmed ==
    LET \* what the hook hands to its caller for the call on record: the
        \* receipt's status, "thrown" for an error it rethrows, or the success
        \* it makes up for a "Block at number" error
        hookReturn ==
            IF last.op = "client" THEN last.status
            ELSE IF last.ctx.receipt = "blockNotFound" THEN "success"
            ELSE IF last.ctx.receipt = "rpcError" THEN "thrown"
            ELSE IF last.ctx.receipt = "waited"
            THEN IF last.status = "success" THEN "success" ELSE "reverted"
            ELSE "none"
    IN hookReturn = "success"
           => /\ last.op \in EngineOps
              /\ last.status = "success"


\* the world with the authorizedCallers mapping set to the accounts in S
WithAuthorizedCallers(wd, S) == [wd EXCEPT !.authorizedCallers = S]

\* C39: the authorizedCallers mapping gates nothing: whatever accounts
\* setAuthorizedCaller has listed or could list, every account meets the same
\* entry checks of open and close with the same result, the health validator
\* gives the same verdict, and no call other than setAuthorizedCaller itself
\* changes the mapping.
C39_AuthorizedCallersGateNothing ==
    [][/\ \A S \in SUBSET (Users \cup {Owner}) : \A u \in Users :
             /\ DeleverageEntry(WithAuthorizedCallers(w', S), u) = DeleverageEntry(w', u)
             /\ ValidatorVerdict(WithAuthorizedCallers(w', S), u) = ValidatorVerdict(w', u)
             /\ \A l \in Leverages, d \in Deposits :
                   LeverageEntry(WithAuthorizedCallers(w', S), u, l, d)
                       = LeverageEntry(w', u, l, d)
       /\ (w'.authorizedCallers # w.authorizedCallers)
             => /\ last'.op = "setAuthorizedCaller"
                /\ last'.status = "success"
                /\ WithAuthorizedCallers(w', {}) = WithAuthorizedCallers(w, {})]_vars

\* after setAuthorizedCaller has listed alice, bob, who is not listed, has
\* opened a position
C39_Witness ==
    /\ Succeeded("leverage")
    /\ last.user = "bob"
    /\ "alice" \in w.authorizedCallers
    /\ "bob" \notin w.authorizedCallers


\* C40: the loan callback dispatches on the operation kind encoded in its
\* parameters: kind 0 runs the open handler and no step of the close handler,
\* kind 1 runs the close handler and no step of the open handler, and any other
\* kind fails with InvalidParameters, no handler run and no balance or position
\* touched.
C40_DispatchOnKind ==
    [][/\ \A c \in {ctx', last'.ctx} :
             LET OpenHandlerSteps == {"swap", "supply", "settleDebt", "validate"}
                 CloseHandlerSteps == {"repay", "withdraw", "swapBack", "surplus", "payout"}
                 StepsRun == {c.trace[i] : i \in 1 .. Len(c.trace)}
             IN /\ (c.opType = 0 /\ c.handler # "none")
                      => /\ c.handler = "leverage"
                         /\ StepsRun \cap CloseHandlerSteps = {}
                /\ (c.opType = 1 /\ c.handler # "none")
                      => /\ c.handler = "deleverage"
                         /\ StepsRun \cap OpenHandlerSteps = {}
                /\ (StepsRun \cap (OpenHandlerSteps \cup CloseHandlerSteps) # {})
                      => c.handler \in EngineOps
       /\ (last'.op = "callback" /\ opCount' # opCount /\ last'.ctx.opType \notin {0, 1, NoKind})
             => /\ last'.status = "InvalidParameters"
                /\ last'.ctx.handler = "InvalidParameters"
                /\ w' = w
                /\ pc' = 0
                /\ ctx' = EmptyCtx]_vars

\* the callback was reached with kind 2 and failed while a position opened by
\* the open handler stands
C40_Witness ==
    /\ last.op = "callback"
    /\ last.ctx.opType = 2
    /\ last.status = "InvalidParameters"
    /\ \E u \in Users : w.collateral[u] > 0 /\ w.debt[u] > 0

====
